---- MODULE Spec2Model ----
(***************************************************************************)
(* A model of the Scheme interpreter of scheme.py / scheme_primitives.py:  *)
(* the value model, the Frame (environment) operations and the eval/apply  *)
(* core with its special-form handlers, as the source defines them.        *)
(*                                                                         *)
(* A Python function whose body is only a string-literal statement returns *)
(* None; the model keeps that outcome (the value None) and the TypeError   *)
(* that unpacking None into "expr, env" raises in scheme_eval/scheme_apply.*)
(***************************************************************************)
EXTENDS Integers, Sequences, FiniteSets, TLC

\* frames: the Frame objects; call, ret, pre: the call made, its outcome and
\* the frames before it; heap: the Pair objects that set-car!/set-cdr!
\* mutate; pc: the position of a running traversal of a pair structure;
\* proper_tail_recursion: the module-level toggle of scheme.py;
\* all_symbols: the intern table _all_symbols; lines: the input the
\* read-eval-print loop has not read yet; printed: what it has printed.
VARIABLES frames, call, ret, pre, heap, pc, proper_tail_recursion,
          all_symbols, lines, printed

vars == <<frames, call, ret, pre, heap, pc, proper_tail_recursion,
          all_symbols, lines, printed>>

(***************************************************************************)
(* Bounds of the model.                                                    *)
(***************************************************************************)
MaxFrames == 2
MaxVals == 3
MaxOperands == 3

(***************************************************************************)
(* Scheme values (scheme_primitives.py).  Every variant is a record with   *)
(* its own field names, so values of different variants are never equal.   *)
(***************************************************************************)
None == [none |-> TRUE]

okay == [okay |-> TRUE]

scheme_true == [bool |-> TRUE]

scheme_false == [bool |-> FALSE]

nil == [nil |-> TRUE]

SchemeInt(n) == [int |-> n]

SchemeStr(s) == [str |-> s]

intern(name) == [sym |-> name]

Pair(first, second) == [first |-> first, second |-> second]

PrimitiveProcedure(fn) == [prim |-> fn]

LambdaProcedure(kind, formals, body, env) ==
  [proc |-> kind, formals |-> formals, body |-> body, env |-> env]

scheme_symbolp(x) == DOMAIN x = {"sym"}

scheme_pairp(x) == DOMAIN x = {"first", "second"}

scheme_nullp(x) == x = nil

\* scheme_atomp with strings left out of the atoms.
scheme_atomp_nostr(x) == ~ scheme_pairp(x) /\ DOMAIN x # {"str"}

scheme_atomp(x) == ~ scheme_pairp(x)

IsProcedure(x) == DOMAIN x = {"prim"} \/ "proc" \in DOMAIN x

\* Only scheme_false is false under Python's truth test.
Truthy(x) == x # scheme_false

\* The end of the cdr-chain of a pair: nil for a proper list, otherwise the
\* atom after the dot (the values here are finite trees, without cycles).
RECURSIVE list_end(_)
list_end(p) == IF scheme_pairp(p.second) THEN list_end(p.second) ELSE p.second

scheme_listp(x) ==
  IF scheme_pairp(x) THEN scheme_nullp(list_end(x)) ELSE scheme_nullp(x)

\* len() of a proper list.
RECURSIVE list_len(_)
list_len(x) == IF scheme_pairp(x) THEN 1 + list_len(x.second) ELSE 0

\* x[k] of a list, k counted from 0.
RECURSIVE list_item(_, _)
list_item(x, k) == IF k = 0 THEN x.first ELSE list_item(x.second, k - 1)

\* The Scheme list of the elements of a sequence, ending in tail.
RECURSIVE ListTail(_, _)
ListTail(s, tail) ==
  IF s = <<>> THEN tail ELSE Pair(Head(s), ListTail(Tail(s), tail))

List(s) == ListTail(s, nil)

(***************************************************************************)
(* Outcomes of a call: a returned value or a raised exception, with the    *)
(* frame store as the call left it and the scheme_eval activations         *)
(* (expression, environment) it entered, in order.                         *)
(***************************************************************************)
Ok(val, store, log) ==
  [exc |-> "none", msg |-> "", val |-> val, store |-> store, log |-> log]

Raise(exc, msg, store, log) ==
  [exc |-> exc, msg |-> msg, val |-> None, store |-> store, log |-> log]

\* An exception whose message is formatted with the value arg (kept in val).
RaiseAbout(exc, msg, arg, store, log) ==
  [exc |-> exc, msg |-> msg, val |-> arg, store |-> store, log |-> log]

(***************************************************************************)
(* Environments (class Frame).  A frame store is a sequence of frames; a   *)
(* frame is named by its index, and NoEnv (0) is Python's None.            *)
(***************************************************************************)
NoEnv == 0

\* A reference to the frame of index id, as a value a call returns.
FrameRef(id) == [frame |-> id]

Symbols == {"x", "y"}

\* _all_symbols = {}: no name has a symbol yet (NoSymbol stands for the
\* absent entry, as in _all_symbols.get(name, None)).
NoSymbol == 0

NoSymbols == [name \in Symbols |-> NoSymbol]

EmptyBindings == <<>>

\* Frame.__init__
Frame(store, parent) ==
  Append(store, [bindings |-> EmptyBindings, parent |-> parent])

\* Frame.lookup: the body after the string conversion is the raise.
lookup(store, self, symbol) ==
  RaiseAbout("SchemeError", "unknown identifier", intern(symbol), store, <<>>)

\* Frame.make_call_frame: a new child frame, returned as it was created.
make_call_frame(store, self, formals, vals) ==
  Ok(FrameRef(Len(store) + 1), Frame(store, self), <<>>)

\* define that assigns in the frame of the chain that already binds sym
\* (the behaviour of an assignment), and in self when none does.
RECURSIVE BindingFrame(_, _, _)
BindingFrame(store, f, sym) ==
  IF f = NoEnv THEN NoEnv
  ELSE IF sym \in DOMAIN store[f].bindings THEN f
  ELSE BindingFrame(store, store[f].parent, sym)

define_where_bound(store, self, sym, val) ==
  LET f == IF BindingFrame(store, self, sym) = NoEnv THEN self
           ELSE BindingFrame(store, self, sym)
  IN [store EXCEPT ![f].bindings =
        [s \in (DOMAIN @) \cup {sym} |-> IF s = sym THEN val ELSE @[s]]]

\* Frame.define: self.bindings[sym] = val
define(store, self, sym, val) ==
  [store EXCEPT ![self].bindings =
     [s \in (DOMAIN @) \cup {sym} |-> IF s = sym THEN val ELSE @[s]]]

\* SchemeValue.get_actual_value
get_actual_value(v) == v

(***************************************************************************)
(* Structure checks (scheme.py, "Utility methods").  Each returns the      *)
(* message of the SchemeError it raises, or "" when it raises none.        *)
(***************************************************************************)
NoMax == -1

check_form(expr, min, max) ==
  IF ~ scheme_listp(expr) THEN "badly formed expression"
  ELSE IF list_len(expr) < min THEN "too few operands in form"
  ELSE IF max # NoMax /\ list_len(expr) > max THEN "too many operands in form"
  ELSE ""

\* check_formals: the body is empty, nothing is checked.
check_formals(formals) == ""

(***************************************************************************)
(* The eval/apply core and the special forms.  A handler or an apply       *)
(* method returns None or the pair (expr, env); its outcome carries that   *)
(* in val.                                                                 *)
(***************************************************************************)
TailPair(expr, env) == [expr |-> expr, env |-> env]

UnpackNone == "cannot unpack non-iterable NoneType object"

NonFunction == "attempt to call something of non-function type"

SPECIAL_FORMS ==
  {"and", "begin", "cond", "define", "if", "lambda", "let", "mu", "nu", "or",
   "quote"}

RECURSIVE scheme_eval(_, _, _, _)
RECURSIVE map_eval(_, _, _, _)
RECURSIVE let_body(_, _, _, _, _, _)
RECURSIVE cond_clauses(_, _, _, _, _, _)

\* do_lambda_form (do_mu_form and do_nu_form pass their function_type)
do_lambda_form(vals, env, function_type, store, log) ==
  IF check_form(vals, 2, NoMax) # ""
  THEN Raise("SchemeError", check_form(vals, 2, NoMax), store, log)
  ELSE IF check_formals(list_item(vals, 0)) # ""
  THEN Raise("SchemeError", check_formals(list_item(vals, 0)), store, log)
  ELSE Ok(None, store, log)

do_mu_form(vals, env, store, log) == do_lambda_form(vals, env, "mu", store, log)

do_nu_form(vals, env, store, log) == do_lambda_form(vals, env, "nu", store, log)

do_define_form(vals, env, store, log) ==
  IF check_form(vals, 2, NoMax) # ""
  THEN Raise("SchemeError", check_form(vals, 2, NoMax), store, log)
  ELSE LET target == list_item(vals, 0) IN
    IF scheme_symbolp(target)
    THEN IF check_form(vals, 2, 2) # ""
         THEN Raise("SchemeError", check_form(vals, 2, 2), store, log)
         ELSE Ok(None, store, log)
    ELSE IF scheme_pairp(target) THEN Ok(None, store, log)
    ELSE Raise("SchemeError", "bad argument to define", store, log)

do_quote_form(vals, env, store, log) ==
  IF check_form(vals, 1, 1) # ""
  THEN Raise("SchemeError", check_form(vals, 1, 1), store, log)
  ELSE Ok(None, store, log)

\* The loop of do_let_form over all but the last body expression, then the
\* return of the last one with the new frame.
let_body(exprs, i, last, new_env, store, log) ==
  IF i >= last THEN Ok(TailPair(list_item(exprs, last), new_env), store, log)
  ELSE LET r == scheme_eval(list_item(exprs, i), new_env, store, log) IN
    IF r.exc # "none" THEN r
    ELSE let_body(exprs, i + 1, last, new_env, r.store, r.log)

do_let_form(vals, env, store, log) ==
  IF check_form(vals, 2, NoMax) # ""
  THEN Raise("SchemeError", check_form(vals, 2, NoMax), store, log)
  ELSE LET bindings == list_item(vals, 0)
           exprs == vals.second
       IN
    IF ~ scheme_listp(bindings)
    THEN Raise("SchemeError", "bad bindings list in let form", store, log)
    ELSE LET m == make_call_frame(store, env, nil, nil) IN
      IF m.exc # "none" THEN [m EXCEPT !.log = log]
      ELSE let_body(exprs, 0, list_len(exprs) - 1, m.val.frame, m.store,
                    log)

do_if_form(vals, env, store, log) ==
  IF check_form(vals, 2, 3) # ""
  THEN Raise("SchemeError", check_form(vals, 2, 3), store, log)
  ELSE Ok(None, store, log)

do_and_form(vals, env, store, log) == Ok(None, store, log)

do_or_form(vals, env, store, log) == Ok(None, store, log)

\* The for loop of do_cond_form from clause i on, and the return after it.
cond_clauses(vals, i, num_clauses, env, store, log) ==
  IF i >= num_clauses THEN Ok(TailPair(okay, NoEnv), store, log)
  ELSE LET clause == list_item(vals, i) IN
    IF check_form(clause, 1, NoMax) # ""
    THEN Raise("SchemeError", check_form(clause, 1, NoMax), store, log)
    ELSE IF clause.first = intern("else")
    THEN IF i < num_clauses - 1
         THEN Raise("SchemeError", "else must be last", store, log)
         ELSE IF clause.second = nil
         THEN Raise("SchemeError", "badly formed else clause", store, log)
         ELSE cond_clauses(vals, i + 1, num_clauses, env, store, log)
    ELSE LET r == scheme_eval(clause.first, env, store, log) IN
      IF r.exc # "none" THEN r
      ELSE cond_clauses(vals, i + 1, num_clauses, env, r.store, r.log)

do_cond_form(vals, env, store, log) ==
  cond_clauses(vals, 0, list_len(vals), env, store, log)

do_begin_form(vals, env, store, log) ==
  IF check_form(vals, 0, NoMax) # ""
  THEN Raise("SchemeError", check_form(vals, 0, NoMax), store, log)
  ELSE IF scheme_nullp(vals) THEN Ok(TailPair(okay, NoEnv), store, log)
  ELSE Ok(None, store, log)

\* SPECIAL_FORMS[first](rest, env)
SpecialForm(first, vals, env, store, log) ==
  CASE first = "and" -> do_and_form(vals, env, store, log)
    [] first = "begin" -> do_begin_form(vals, env, store, log)
    [] first = "cond" -> do_cond_form(vals, env, store, log)
    [] first = "define" -> do_define_form(vals, env, store, log)
    [] first = "if" -> do_if_form(vals, env, store, log)
    [] first = "lambda" -> do_lambda_form(vals, env, "lambda", store, log)
    [] first = "let" -> do_let_form(vals, env, store, log)
    [] first = "mu" -> do_mu_form(vals, env, store, log)
    [] first = "nu" -> do_nu_form(vals, env, store, log)
    [] first = "or" -> do_or_form(vals, env, store, log)
    [] first = "quote" -> do_quote_form(vals, env, store, log)

\* PrimitiveProcedure.apply: no statement, returns None.
PrimitiveProcedure_apply(self, args, env, store, log) == Ok(None, store, log)

\* LambdaProcedure.apply (inherited by NuProcedure and Thunk): either branch
\* of the test of proper_tail_recursion is empty, returns None.
LambdaProcedure_apply(self, args, env, store, log) == Ok(None, store, log)

\* MuProcedure.apply: likewise.
MuProcedure_apply(self, args, env, store, log) == Ok(None, store, log)

\* procedure.apply(args, env), by the class of procedure.
apply(procedure, args, env, store, log) ==
  IF DOMAIN procedure = {"prim"}
  THEN PrimitiveProcedure_apply(procedure, args, env, store, log)
  ELSE IF ~ IsProcedure(procedure)
  THEN Raise("SchemeError", NonFunction, store, log)
  ELSE IF procedure.proc = "mu"
  THEN MuProcedure_apply(procedure, args, env, store, log)
  ELSE LambdaProcedure_apply(procedure, args, env, store, log)

\* arg_list.map(lambda operand: scheme_eval(operand, env)); val is the list.
map_eval(arg_list, env, store, log) ==
  IF ~ scheme_pairp(arg_list) THEN Ok(arg_list, store, log)
  ELSE LET mapped == scheme_eval(arg_list.first, env, store, log) IN
    IF mapped.exc # "none" THEN mapped
    ELSE IF ~ (scheme_nullp(arg_list.second) \/ scheme_pairp(arg_list.second))
    THEN Raise("SchemeError", "ill-formed list", mapped.store, mapped.log)
    ELSE LET r == map_eval(arg_list.second, env, mapped.store, mapped.log) IN
      IF r.exc # "none" THEN r
      ELSE Ok(Pair(mapped.val, r.val), r.store, r.log)

\* evaluate_arguments that maps over the operands whatever the value is.
evaluate_arguments_any(procedure, arg_list, env, store, log) ==
  map_eval(arg_list, env, store, log)

\* procedure.evaluate_arguments(rest, env): Procedure's for a procedure,
\* SchemeValue's (which raises) for every other value.
evaluate_arguments(procedure, arg_list, env, store, log) ==
  IF IsProcedure(procedure) THEN map_eval(arg_list, env, store, log)
  ELSE Raise("SchemeError", NonFunction, store, log)

\* expr, env = procedure.apply(args, env); return scheme_eval(expr, env)
scheme_apply(procedure, args, env, store, log) ==
  LET a == apply(procedure, args, env, store, log) IN
    IF a.exc # "none" THEN a
    ELSE IF a.val = None THEN Raise("TypeError", UnpackNone, a.store, a.log)
    ELSE scheme_eval(a.val.expr, a.val.env, a.store, a.log)

\* scheme_eval; every activation with an environment is entered in the log.
scheme_eval(expr, env, store, log) ==
  IF env = NoEnv THEN Ok(expr, store, log)
  ELSE LET log1 == Append(log, <<expr, env>>) IN
    IF expr = None
    THEN Raise("SchemeError", "Cannot evaluate an undefined expression.",
               store, log1)
    ELSE IF scheme_symbolp(expr)
    THEN LET b == lookup(store, env, expr.sym) IN
         IF b.exc # "none" THEN [b EXCEPT !.log = log1]
         ELSE scheme_eval(get_actual_value(b.val), NoEnv, store, log1)
    ELSE IF scheme_atomp(expr) THEN scheme_eval(expr, NoEnv, store, log1)
    ELSE IF ~ scheme_listp(expr)
    THEN Raise("SchemeError", "malformed list", store, log1)
    ELSE LET first == expr.first
             rest == expr.second
         IN
      IF scheme_symbolp(first) /\ first.sym \in SPECIAL_FORMS
      THEN IF proper_tail_recursion
           THEN Raise("Diverges", "the loop repeats with expr and env unchanged",
                      store, log1)
           ELSE LET h == SpecialForm(first.sym, rest, env, store, log1) IN
             IF h.exc # "none" THEN h
             ELSE IF h.val = None
             THEN Raise("TypeError", UnpackNone, h.store, h.log)
             ELSE scheme_eval(h.val.expr, h.val.env, h.store, h.log)
      ELSE LET procedure == scheme_eval(first, env, store, log1) IN
        IF procedure.exc # "none" THEN procedure
        ELSE LET args == evaluate_arguments(procedure.val, rest, env,
                                            procedure.store, procedure.log)
             IN
          IF args.exc # "none" THEN args
          ELSE IF proper_tail_recursion
          THEN Raise("Diverges", "the loop repeats with expr and env unchanged",
                     args.store, args.log)
          ELSE scheme_apply(procedure.val, args.val, env, args.store, args.log)

(***************************************************************************)
(* Inputs of the calls.                                                    *)
(***************************************************************************)
SeqsUpTo(S, n) == UNION {[1..k -> S] : k \in 0..n}

\* Values bound by define and passed as arguments.
BindVals == {SchemeInt(1), SchemeInt(2)}

\* Procedure values: a primitive, and a lambda and a mu with the same formals
\* and body, whose body is the free variable x, both defined in frame 1.
Procs ==
  {PrimitiveProcedure("add"),
   LambdaProcedure("lambda", nil, intern("x"), 1),
   LambdaProcedure("mu", nil, intern("x"), 1),
   LambdaProcedure("lambda", List(<<intern("y")>>), intern("y"), 1)}

\* Atoms that are not symbols.
Atoms ==
  {SchemeInt(1), SchemeInt(2), SchemeStr("a"), scheme_true, scheme_false, nil,
   okay} \cup Procs

AtomExprs == Atoms \cup {intern(s) : s \in Symbols}

\* Formal parameter lists: proper or dotted lists of distinct symbols.
FormalsSet ==
  {ListTail(s, t) :
     <<s, t>> \in {<<a, b>> \in SeqsUpTo({intern(n) : n \in Symbols}, 2)
                                 \X ({nil} \cup {intern(n) : n \in Symbols}) :
                     /\ a # <<>> \/ b = nil
                     /\ \A i, j \in DOMAIN a : i # j => a[i] # a[j]
                     /\ \A i \in DOMAIN a : a[i] # b}}

ValsSet == {List(s) : s \in SeqsUpTo(BindVals, MaxVals)}

\* Operands of the generated combinations.
Elems == {SchemeInt(1), intern("x"), scheme_false, List(<<intern("begin")>>)}

Heads ==
  {intern(f) : f \in SPECIAL_FORMS}
    \cup {intern("x"), SchemeInt(1), PrimitiveProcedure("add"),
          LambdaProcedure("lambda", nil, intern("x"), 1),
          LambdaProcedure("mu", nil, intern("x"), 1)}

Forms == {Pair(h, List(s)) : h \in Heads, s \in SeqsUpTo(Elems, MaxOperands)}

BindingLists ==
  {nil,
   List(<<List(<<intern("x"), SchemeInt(1)>>)>>),
   List(<<List(<<intern("y"), intern("x")>>)>>),
   List(<<List(<<intern("x"), SchemeInt(1)>>),
          List(<<intern("y"), intern("x")>>)>>)}

LetForms ==
  {Pair(intern("let"), Pair(b, List(body))) :
     b \in BindingLists,
     body \in SeqsUpTo({SchemeInt(2), intern("x"), intern("y")}, 2)}

DefineForms ==
  {List(<<intern("define"), t, e>>) :
     t \in {intern("x"), List(<<intern("y")>>),
            List(<<intern("y"), intern("x")>>), SchemeStr("a")},
     e \in {SchemeInt(2), intern("x"), List(<<intern("quote"), intern("y")>>)}}

NestedForms ==
  {List(<<intern("if"), c, a, b>>) :
     c \in {scheme_true, scheme_false, List(<<intern("begin")>>)},
     a \in {List(<<intern("quote"), intern("x")>>), SchemeInt(1)},
     b \in {List(<<intern("quote"), intern("y")>>)}}
    \cup {List(<<intern("quote"), q>>) :
            q \in {intern("y"), List(<<SchemeInt(1), SchemeInt(2)>>),
                   Pair(SchemeInt(1), SchemeInt(2))}}
    \cup {Pair(h, SchemeInt(1)) : h \in {intern("if"), intern("quote")}}

\* cond forms of one or two clauses.
CondClauses ==
  {List(<<scheme_true, SchemeInt(1)>>),
   List(<<scheme_false, SchemeInt(1)>>),
   List(<<scheme_true, SchemeInt(1), SchemeInt(2)>>),
   List(<<intern("else"), SchemeInt(2)>>)}

CondForms ==
  {Pair(intern("cond"), List(c)) : c \in SeqsUpTo(CondClauses, 2) \ {<<>>}}

\* lambda, mu and nu forms with valid and invalid formals.
LambdaForms ==
  {List(<<intern(k), formals, body>>) :
     k \in {"lambda", "mu", "nu"},
     formals \in {nil, List(<<intern("x")>>),
                  List(<<intern("x"), intern("y")>>),
                  List(<<intern("x"), intern("x")>>),
                  List(<<SchemeInt(1)>>),
                  List(<<intern("x"), SchemeInt(1)>>)},
     body \in {SchemeInt(1), intern("x")}}

\* Calls of a nu procedure of one formal, y, whose body is y or does not
\* mention y.
NuProcs ==
  {LambdaProcedure("nu", List(<<intern("y")>>), body, 1) :
     body \in {intern("y"), SchemeInt(1)}}

NuCalls ==
  {List(<<p, e>>) :
     p \in NuProcs,
     e \in {SchemeInt(2), intern("x"), List(<<intern("begin")>>)}}

Exprs ==
  Forms \cup LetForms \cup DefineForms \cup NestedForms \cup CondForms
    \cup LambdaForms \cup NuCalls

\* Environments of the evaluations: a global frame and one child frame.
BindingsOver(syms, v) ==
  {EmptyBindings} \cup UNION {[d -> {v}] : d \in (SUBSET syms) \ {{}}}

EvalStores ==
  {<<[bindings |-> g, parent |-> NoEnv], [bindings |-> c, parent |-> 1]>> :
     g \in BindingsOver(Symbols, SchemeInt(1)),
     c \in BindingsOver({"x"}, SchemeInt(2))}

\* No traversal of a pair structure is running.
Idle == [op |-> "idle", p0 |-> nil, p1 |-> nil]

(***************************************************************************)
(* The calls, one action each.  call is the call made, pre the frame store *)
(* before it, ret its outcome and frames the store after it.               *)
(***************************************************************************)
Init ==
  /\ frames = Frame(<<>>, NoEnv)
  /\ call = [op |-> "create"]
  /\ ret = Ok(FrameRef(1), frames, <<>>)
  /\ pre = <<>>
  /\ heap = <<>>
  /\ pc = Idle
  /\ proper_tail_recursion = FALSE
  /\ all_symbols = NoSymbols
  /\ lines = <<>>
  /\ printed = <<>>

\* Frame(parent)
NewFrame ==
  \E parent \in 1..Len(frames) :
    /\ Len(frames) < MaxFrames
    /\ frames' = Frame(frames, parent)
    /\ call' = [op |-> "Frame", parent |-> parent]
    /\ ret' = Ok(FrameRef(Len(frames) + 1), frames', <<>>)
    /\ pre' = frames
    /\ UNCHANGED <<heap, pc, proper_tail_recursion,
                 all_symbols, lines, printed>>

\* self.define(sym, val)
Define ==
  \E self \in 1..Len(frames), sym \in Symbols, val \in BindVals :
    /\ frames' = define(frames, self, sym, val)
    /\ call' = [op |-> "define", self |-> self, sym |-> sym, val |-> val]
    /\ ret' = Ok(None, frames', <<>>)
    /\ pre' = frames
    /\ UNCHANGED <<heap, pc, proper_tail_recursion,
                 all_symbols, lines, printed>>

\* self.lookup(symbol)
Lookup ==
  \E self \in 1..Len(frames), symbol \in Symbols :
    /\ ret' = lookup(frames, self, symbol)
    /\ call' = [op |-> "lookup", self |-> self, symbol |-> symbol]
    /\ frames' = lookup(frames, self, symbol).store
    /\ pre' = frames
    /\ UNCHANGED <<heap, pc, proper_tail_recursion,
                 all_symbols, lines, printed>>

\* self.make_call_frame(formals, vals)
MakeCallFrame ==
  \E self \in 1..Len(frames), formals \in FormalsSet, vals \in ValsSet :
    /\ Len(frames) < MaxFrames
    /\ ret' = make_call_frame(frames, self, formals, vals)
    /\ call' = [op |-> "make_call_frame", self |-> self, formals |-> formals,
                vals |-> vals]
    /\ frames' = make_call_frame(frames, self, formals, vals).store
    /\ pre' = frames
    /\ UNCHANGED <<heap, pc, proper_tail_recursion,
                 all_symbols, lines, printed>>

\* scheme_eval(expr, env) of an atomic expression
EvalAtom ==
  \E env \in 1..Len(frames), expr \in AtomExprs :
    /\ ret' = scheme_eval(expr, env, frames, <<>>)
    /\ call' = [op |-> "scheme_eval", expr |-> expr, env |-> env]
    /\ frames' = scheme_eval(expr, env, frames, <<>>).store
    /\ pre' = frames
    /\ UNCHANGED <<heap, pc, proper_tail_recursion,
                 all_symbols, lines, printed>>

Next == NewFrame \/ Define \/ Lookup \/ MakeCallFrame \/ EvalAtom

Spec == Init /\ [][Next]_vars

\* The evaluator on combinations: a call of scheme_eval or scheme_apply is
\* drawn with its environment, and then runs.
Pending(store) ==
  [exc |-> "pending", msg |-> "", val |-> None, store |-> store, log |-> <<>>]

EvalCalls ==
  {[op |-> "scheme_eval", expr |-> expr, env |-> env] :
     expr \in Exprs, env \in 1..2}

ApplyCalls ==
  {[op |-> "scheme_apply", procedure |-> procedure, args |-> args,
    env |-> env] :
     procedure \in Procs \cup {SchemeInt(1)},
     args \in {nil, List(<<SchemeInt(1)>>)}, env \in 1..2}

InitEval ==
  /\ frames \in EvalStores
  /\ call \in EvalCalls \cup ApplyCalls
  /\ ret = Pending(frames)
  /\ pre = frames
  /\ heap = <<>>
  /\ pc = Idle
  /\ proper_tail_recursion = FALSE
  /\ all_symbols = NoSymbols
  /\ lines = <<>>
  /\ printed = <<>>

\* scheme_eval(expr, env); a call whose while loop repeats with expr and env
\* unchanged never returns, and its result stays pending.
Eval ==
  /\ call.op = "scheme_eval"
  /\ ret.exc = "pending"
  /\ IF scheme_eval(call.expr, call.env, frames, <<>>).exc = "Diverges"
     THEN UNCHANGED <<ret, frames>>
     ELSE /\ ret' = scheme_eval(call.expr, call.env, frames, <<>>)
          /\ frames' = scheme_eval(call.expr, call.env, frames, <<>>).store
  /\ UNCHANGED <<call, pre, heap, pc, proper_tail_recursion,
                 all_symbols, lines, printed>>

\* scheme_apply(procedure, args, env)
Apply ==
  /\ call.op = "scheme_apply"
  /\ ret.exc = "pending"
  /\ ret' = scheme_apply(call.procedure, call.args, call.env, frames, <<>>)
  /\ frames' =
       scheme_apply(call.procedure, call.args, call.env, frames, <<>>).store
  /\ UNCHANGED <<call, pre, heap, pc, proper_tail_recursion,
                 all_symbols, lines, printed>>

NextEval == Eval \/ Apply

SpecEval == InitEval /\ [][NextEval]_vars

(***************************************************************************)
(* The evaluator with proper_tail_recursion = True (the line of scheme.py  *)
(* that is to be uncommented), on calls of a procedure that calls itself   *)
(* in tail position.                                                       *)
(***************************************************************************)
MaxIterations == 3

\* (lambda (x) (if (null? x) 0 (loop (cdr x)))), bound to loop in frame 1.
LoopBody ==
  List(<<intern("if"), List(<<intern("null?"), intern("x")>>), SchemeInt(0),
         List(<<intern("loop"), List(<<intern("cdr"), intern("x")>>)>>)>>)

LoopProc == LambdaProcedure("lambda", List(<<intern("x")>>), LoopBody, 1)

\* The argument whose list has n elements: n self-calls follow the first.
LoopArg(n) ==
  IF n = 0 THEN nil
  ELSE List(<<intern("quote"), List([i \in 1..n |-> SchemeInt(1)])>>)

LoopCalls ==
  {List(<<h, LoopArg(n)>>) :
     h \in {intern("loop"), LoopProc}, n \in 0..MaxIterations}

LoopBindings(extra) ==
  [s \in {"loop", "null?", "cdr"} \cup extra |->
     IF s = "loop" THEN LoopProc
     ELSE IF s \in extra THEN SchemeInt(1) ELSE PrimitiveProcedure(s)]

LoopStores ==
  {<<[bindings |-> LoopBindings(g), parent |-> NoEnv],
     [bindings |-> c, parent |-> 1]>> :
     g \in SUBSET Symbols, c \in BindingsOver({"x"}, SchemeInt(2))}

InitTail ==
  /\ frames \in LoopStores
  /\ call \in {[op |-> "scheme_eval", expr |-> expr, env |-> env] :
                 expr \in LoopCalls \cup Atoms, env \in 1..2}
            \cup {[op |-> "scheme_apply", procedure |-> LoopProc,
                    args |-> List([i \in 1..n |-> SchemeInt(1)]),
                    env |-> env] : n \in 0..MaxIterations, env \in 1..2}
  /\ ret = Pending(frames)
  /\ pre = frames
  /\ heap = <<>>
  /\ pc = Idle
  /\ proper_tail_recursion = TRUE
  /\ all_symbols = NoSymbols
  /\ lines = <<>>
  /\ printed = <<>>

\* The interpreter runs the call it was given until the call returns.
SpecTail == InitTail /\ [][NextEval]_vars /\ WF_vars(NextEval)

(***************************************************************************)
(* Pair objects under cons, set-car! and set-cdr!, and the traversals of   *)
(* their cdr-chains: list?, length and the printed form.  heap[i] is the   *)
(* Pair object i; a loop of a traversal takes one step per iteration.      *)
(***************************************************************************)
MaxPairs == 3

\* A reference to the Pair object i.
PairRef(i) == [ref |-> i]

pairp(v) == DOMAIN v = {"ref"}

scbool(x) == IF x THEN scheme_true ELSE scheme_false

CarVals == {SchemeInt(1), SchemeInt(2)}

CdrVals == {nil, SchemeInt(1)} \cup {PairRef(i) : i \in 1..Len(heap)}

\* n of Pair.__len__, counted by its while loop from the cdr v of the pair.
RECURSIVE len_loop(_, _)
len_loop(h, v) == IF pairp(v) THEN 1 + len_loop(h, h[v.ref].second) ELSE 0

\* str() of an atom of the heap.
str_atom(v) == IF v = nil THEN "()" ELSE ToString(v.int)

\* What Pair.__str__ appends to s from the cdr v on.
RECURSIVE str_loop(_, _)
str_loop(h, v) ==
  IF pairp(v)
  THEN " " \o str_atom(h[v.ref].first) \o str_loop(h, h[v.ref].second)
  ELSE IF v = nil THEN ")" ELSE " . " \o str_atom(v) \o ")"

\* x.cons(y)
Cons ==
  \E x \in CarVals, y \in CdrVals :
    /\ pc = Idle
    /\ Len(heap) < MaxPairs
    /\ heap' = Append(heap, Pair(x, y))
    /\ call' = [op |-> "cons", x |-> x, y |-> y]
    /\ ret' = Ok(PairRef(Len(heap) + 1), frames, <<>>)
    /\ UNCHANGED <<frames, pre, pc, proper_tail_recursion,
                 all_symbols, lines, printed>>

\* self.set_car(v)
SetCar ==
  \E self \in 1..Len(heap), v \in CarVals :
    /\ pc = Idle
    /\ heap' = [heap EXCEPT ![self].first = v]
    /\ call' = [op |-> "set-car!", self |-> self, v |-> v]
    /\ ret' = Ok(okay, frames, <<>>)
    /\ UNCHANGED <<frames, pre, pc, proper_tail_recursion,
                 all_symbols, lines, printed>>

\* self.set_cdr(v)
SetCdr ==
  \E self \in 1..Len(heap), v \in CdrVals :
    /\ pc = Idle
    /\ heap' = [heap EXCEPT ![self].second = v]
    /\ call' = [op |-> "set-cdr!", self |-> self, v |-> v]
    /\ ret' = Ok(okay, frames, <<>>)
    /\ UNCHANGED <<frames, pre, pc, proper_tail_recursion,
                 all_symbols, lines, printed>>

\* self.listp(): enters _list_end with p0 = self, p1 = self.second.
Listp ==
  \E self \in 1..Len(heap) :
    /\ pc = Idle
    /\ call' = [op |-> "list?", self |-> self]
    /\ ret' = Pending(frames)
    /\ pc' = [op |-> "list_end", p0 |-> PairRef(self),
              p1 |-> heap[self].second]
    /\ UNCHANGED <<frames, pre, heap, proper_tail_recursion,
                 all_symbols, lines, printed>>

\* self.length(): __len__ enters _list_end likewise.
Length ==
  \E self \in 1..Len(heap) :
    /\ pc = Idle
    /\ call' = [op |-> "length", self |-> self]
    /\ ret' = Pending(frames)
    /\ pc' = [op |-> "list_end", p0 |-> PairRef(self),
              p1 |-> heap[self].second]
    /\ UNCHANGED <<frames, pre, heap, proper_tail_recursion,
                 all_symbols, lines, printed>>

\* What listp and __len__ do with the end that _list_end returns.
AfterListEnd(end) ==
  IF call.op = "list?" THEN Ok(scbool(scheme_nullp(end)), frames, <<>>)
  ELSE IF ~ scheme_nullp(end)
  THEN Raise("SchemeError", "length attempted on improper list", frames, <<>>)
  ELSE Ok(SchemeInt(1 + len_loop(heap, heap[call.self].second)), frames, <<>>)

\* One test of the while condition of _list_end and, when it holds, one
\* iteration: p1 advances, the loop breaks on p1 is p0 or on a p1 that is
\* no pair, and otherwise p0 advances.
ListEndStep ==
  /\ pc.op = "list_end"
  /\ IF pc.p1 = pc.p0 \/ ~ pairp(pc.p1)
     THEN ret' = AfterListEnd(pc.p1) /\ pc' = Idle
     ELSE LET p1 == heap[pc.p1.ref].second IN
       IF p1 = pc.p0 \/ ~ pairp(p1)
       THEN ret' = AfterListEnd(p1) /\ pc' = Idle
       ELSE /\ pc' = [pc EXCEPT !.p0 = heap[pc.p0.ref].second, !.p1 = p1]
            /\ UNCHANGED ret
  /\ UNCHANGED <<frames, call, pre, heap, proper_tail_recursion,
                 all_symbols, lines, printed>>

\* str(self): __str__ enters its while loop with second = self.second.
Str ==
  \E self \in 1..Len(heap) :
    /\ pc = Idle
    /\ call' = [op |-> "str", self |-> self]
    /\ ret' = Pending(frames)
    /\ pc' = [op |-> "str", p0 |-> PairRef(self), p1 |-> heap[self].second]
    /\ UNCHANGED <<frames, pre, heap, proper_tail_recursion,
                 all_symbols, lines, printed>>

\* One test of the while condition of __str__ (second.pairp()) and, when it
\* holds, one iteration; p1 is the variable second.  The string returned is
\* the one the iterations have built.
StrStep ==
  /\ pc.op = "str"
  /\ IF pairp(pc.p1)
     THEN pc' = [pc EXCEPT !.p1 = heap[pc.p1.ref].second] /\ UNCHANGED ret
     ELSE /\ ret' = Ok(SchemeStr("(" \o str_atom(heap[call.self].first)
                                     \o str_loop(heap, heap[call.self].second)),
                       frames, <<>>)
          /\ pc' = Idle
  /\ UNCHANGED <<frames, call, pre, heap, proper_tail_recursion,
                 all_symbols, lines, printed>>

NextPair ==
  Cons \/ SetCar \/ SetCdr \/ Listp \/ Length \/ ListEndStep \/ Str \/ StrStep

\* A traversal that has begun goes on: the interpreter is single-threaded
\* and runs the loop until it exits.
SpecPair ==
  Init /\ [][NextPair]_vars /\ WF_vars(ListEndStep) /\ WF_vars(StrStep)

(***************************************************************************)
(* The integer division primitives: quotient, modulo, remainder and /.     *)
(* A Python operator that raises (ZeroDivisionError) is an outcome, which  *)
(* the try statements of the primitives turn into SchemeError.             *)
(***************************************************************************)
MaxInt == 7

Ints == (-MaxInt)..MaxInt

\* A float, kept as the quotient num / den whose nearest float it is.
SchemeFloat(num, den) == [num |-> num, den |-> den]

scheme_integerp(x) == DOMAIN x = {"int"}

scheme_numberp(x) == scheme_integerp(x) \/ DOMAIN x = {"num", "den"}

\* The numbers of the calls: the integers of the range and two floats.
Nums == {SchemeInt(n) : n \in Ints} \cup {SchemeFloat(1, 2), SchemeFloat(-3, 2)}

\* bad_type(val, k, name)
bad_type(k, name) ==
  RaiseAbout("SchemeError", "argument has wrong type", [arg |-> k, of |-> name],
             frames, <<>>)

abs(n) == IF n < 0 THEN -n ELSE n

\* Python's x // y and x % y on integers: the floor quotient and the
\* remainder with the sign of y.
floordiv(x, y) ==
  IF y = 0
  THEN Raise("ZeroDivisionError", "integer division or modulo by zero",
             frames, <<>>)
  ELSE Ok(IF y > 0 THEN x \div y ELSE (-x) \div (-y), frames, <<>>)

mod(x, y) ==
  IF y = 0
  THEN Raise("ZeroDivisionError", "integer modulo by zero", frames, <<>>)
  ELSE Ok(x - y * floordiv(x, y).val, frames, <<>>)

\* except ZeroDivisionError as err: raise SchemeError(err)
AsSchemeError(r) ==
  IF r.exc = "ZeroDivisionError" THEN [r EXCEPT !.exc = "SchemeError"] ELSE r

\* quo without the test of the signs: the floor quotient.
quo_floor(self, y) ==
  LET r == AsSchemeError(floordiv(self, y)) IN
    IF r.exc # "none" THEN r ELSE Ok(SchemeInt(r.val), frames, <<>>)

\* SchemeInt.quo
quo(self, y) ==
  LET r == AsSchemeError(IF (y < 0) # (self < 0)
                         THEN floordiv(abs(self), abs(y))
                         ELSE floordiv(self, y))
  IN IF r.exc # "none" THEN r
     ELSE Ok(SchemeInt(IF (y < 0) # (self < 0) THEN - r.val ELSE r.val),
             frames, <<>>)

\* SchemeInt.modulo
modulo(self, y) ==
  LET r == AsSchemeError(mod(self, y)) IN
    IF r.exc # "none" THEN r ELSE Ok(SchemeInt(r.val), frames, <<>>)

\* SchemeInt.rem
rem(self, y) ==
  LET q == quo(self, y) IN
    IF q.exc # "none" THEN q
    ELSE Ok(SchemeInt(self - q.val.int * y), frames, <<>>)

\* _arith(operator.truediv, init, vals): s is kept as the quotient
\* num / den; a zero divisor raises ZeroDivisionError; an integral result is
\* a SchemeInt, any other a SchemeFloat.
RECURSIVE arith_truediv(_, _, _)
arith_truediv(num, den, vals) ==
  IF vals = <<>>
  THEN IF mod(num, den).val = 0
       THEN Ok(SchemeInt(floordiv(num, den).val), frames, <<>>)
       ELSE Ok(SchemeFloat(num, den), frames, <<>>)
  ELSE LET val == Head(vals) IN
    IF scheme_integerp(val)
    THEN IF val.int = 0
         THEN Raise("ZeroDivisionError", "division by zero", frames, <<>>)
         ELSE arith_truediv(num, den * val.int, Tail(vals))
    ELSE arith_truediv(num * val.den, den * val.num, Tail(vals))

\* The SchemeInt 2^pow + plus, an integer beyond the float mantissa of 53
\* bits (and beyond the integers computed with here).
LargeInt(pow, plus) == [pow |-> pow, plus |-> plus]

MaxOffset == 5

LargeInts == {LargeInt(53, k) : k \in 0..MaxOffset}

\* k / 2 rounded to the nearest integer, a tie to the even one, k >= 0.
round_half_even(k) ==
  IF k % 2 = 0 THEN k \div 2
  ELSE IF ((k - 1) \div 2) % 2 = 0 THEN (k - 1) \div 2 ELSE (k + 1) \div 2

\* _arith(operator.truediv, val0, (val,)) for val0 = 2^53 + k and val one
\* of 0, 1, 2: int / int is the float nearest to the quotient, and the
\* float nearest to 2^53 + k is 2 * (2^52 + round_half_even(k)); dividing
\* by 2 is exact.  That float is integral, so round(s) == s holds.
truediv_large(val0, val) ==
  CASE val.int = 0 ->
         Raise("ZeroDivisionError", "division by zero", frames, <<>>)
    [] val.int = 1 ->
         Ok(LargeInt(53, 2 * round_half_even(val0.plus)), frames, <<>>)
    [] val.int = 2 ->
         Ok(LargeInt(52, round_half_even(val0.plus)), frames, <<>>)

\* _arith(operator.truediv, val0, vals) from the number val0.
truediv_from(val0, vals) ==
  IF scheme_integerp(val0) THEN arith_truediv(val0.int, 1, vals)
  ELSE IF "pow" \in DOMAIN val0 THEN truediv_large(val0, Head(vals))
  ELSE arith_truediv(val0.num, val0.den, vals)

\* The rational num / den of a number of Nums.
NumOf(val) == IF scheme_integerp(val) THEN val.int ELSE val.num

DenOf(val) == IF scheme_integerp(val) THEN 1 ELSE val.den

\* _arith(fn, init, vals) for operator.add, operator.sub and operator.mul,
\* s kept as the quotient num / den.
RECURSIVE arith(_, _, _, _)
arith(fn, num, den, vals) ==
  IF vals = <<>>
  THEN IF mod(num, den).val = 0
       THEN Ok(SchemeInt(floordiv(num, den).val), frames, <<>>)
       ELSE Ok(SchemeFloat(num, den), frames, <<>>)
  ELSE LET n == NumOf(Head(vals))
           d == DenOf(Head(vals))
       IN CASE fn = "add" -> arith(fn, num * d + n * den, den * d, Tail(vals))
            [] fn = "sub" -> arith(fn, num * d - n * den, den * d, Tail(vals))
            [] fn = "mul" -> arith(fn, num * n, den * d, Tail(vals))

\* scheme_add(*vals)
scheme_add(vals) == arith("add", 0, 1, vals)

\* scheme_sub(val0, *vals); with one argument val0.neg()
scheme_sub(vals) ==
  IF Len(vals) = 1
  THEN Ok(IF scheme_integerp(Head(vals)) THEN SchemeInt(- Head(vals).int)
          ELSE SchemeFloat(- Head(vals).num, Head(vals).den), frames, <<>>)
  ELSE arith("sub", NumOf(Head(vals)), DenOf(Head(vals)), Tail(vals))

\* scheme_mul(*vals)
scheme_mul(vals) == arith("mul", 1, 1, vals)

\* scheme_div without its try statement.
scheme_div_uncaught(vals) ==
  IF Len(vals) = 1 THEN arith_truediv(1, 1, vals)
  ELSE IF Len(vals) = 0
  THEN Raise("SchemeError", "/ takes at least one argument", frames, <<>>)
  ELSE truediv_from(Head(vals), Tail(vals))

\* scheme_div
scheme_div(vals) ==
  AsSchemeError(IF Len(vals) = 1 THEN arith_truediv(1, 1, vals)
                ELSE IF Len(vals) = 0
                THEN Raise("SchemeError", "/ takes at least one argument",
                           frames, <<>>)
                ELSE truediv_from(Head(vals), Tail(vals)))

\* scheme_quo(val0, val1): val0.quo(val1), which is SchemeValue.quo for a
\* float; SchemeInt.quo checks that val1 is an integer.
scheme_quo(val0, val1) ==
  IF ~ scheme_integerp(val0) THEN bad_type(0, "quotient")
  ELSE IF ~ scheme_integerp(val1) THEN bad_type(1, "quotient")
  ELSE quo(val0.int, val1.int)

\* scheme_modulo(val0, val1)
scheme_modulo(val0, val1) ==
  IF ~ scheme_integerp(val0) THEN bad_type(0, "modulo")
  ELSE IF ~ scheme_integerp(val1) THEN bad_type(1, "modulo")
  ELSE modulo(val0.int, val1.int)

\* scheme_rem(val0, val1); SchemeInt.rem calls quo, which checks val1.
scheme_rem(val0, val1) ==
  IF ~ scheme_integerp(val0) THEN bad_type(0, "remainder")
  ELSE IF ~ scheme_integerp(val1) THEN bad_type(1, "quotient")
  ELSE rem(val0.int, val1.int)

\* (quotient val0 val1)
Quotient ==
  \E val0 \in Nums, val1 \in Nums :
    /\ call' = [op |-> "quotient", vals |-> <<val0, val1>>]
    /\ ret' = scheme_quo(val0, val1)
    /\ UNCHANGED <<frames, pre, heap, pc, proper_tail_recursion,
                 all_symbols, lines, printed>>

\* (modulo val0 val1)
Modulo ==
  \E val0 \in Nums, val1 \in Nums :
    /\ call' = [op |-> "modulo", vals |-> <<val0, val1>>]
    /\ ret' = scheme_modulo(val0, val1)
    /\ UNCHANGED <<frames, pre, heap, pc, proper_tail_recursion,
                 all_symbols, lines, printed>>

\* (remainder val0 val1)
Remainder ==
  \E val0 \in Nums, val1 \in Nums :
    /\ call' = [op |-> "remainder", vals |-> <<val0, val1>>]
    /\ ret' = scheme_rem(val0, val1)
    /\ UNCHANGED <<frames, pre, heap, pc, proper_tail_recursion,
                 all_symbols, lines, printed>>

\* (+ vals...)
Add ==
  \E vals \in SeqsUpTo(Nums, 2) :
    /\ call' = [op |-> "+", vals |-> vals]
    /\ ret' = scheme_add(vals)
    /\ UNCHANGED <<frames, pre, heap, pc, proper_tail_recursion,
                 all_symbols, lines, printed>>

\* (- val0 vals...)
Sub ==
  \E vals \in SeqsUpTo(Nums, 2) \ {<<>>} :
    /\ call' = [op |-> "-", vals |-> vals]
    /\ ret' = scheme_sub(vals)
    /\ UNCHANGED <<frames, pre, heap, pc, proper_tail_recursion,
                 all_symbols, lines, printed>>

\* (* vals...)
Mul ==
  \E vals \in SeqsUpTo(Nums, 2) :
    /\ call' = [op |-> "*", vals |-> vals]
    /\ ret' = scheme_mul(vals)
    /\ UNCHANGED <<frames, pre, heap, pc, proper_tail_recursion,
                 all_symbols, lines, printed>>

\* (/ vals...), with no, one or two arguments; a dividend may be one of the
\* large integers, divided by 0, 1 or 2.
Divide ==
  \E vals \in SeqsUpTo(Nums, 2)
               \cup (LargeInts \X {SchemeInt(b) : b \in 0..2}) :
    /\ call' = [op |-> "/", vals |-> vals]
    /\ ret' = scheme_div(vals)
    /\ UNCHANGED <<frames, pre, heap, pc, proper_tail_recursion,
                 all_symbols, lines, printed>>

NextArith == Quotient \/ Modulo \/ Remainder \/ Divide \/ Add \/ Sub \/ Mul

SpecArith == Init /\ [][NextArith]_vars

(***************************************************************************)
(* The intern table (scheme_primitives.py).  heap holds the SchemeSymbol    *)
(* objects, a symbol being the reference to its object; all_symbols maps a *)
(* name to the reference of its canonical symbol; pre records, per name,   *)
(* the symbols intern has returned.                                        *)
(***************************************************************************)
MaxSymbols == 4

\* SchemeSymbol(name): a new symbol object; the table is not involved.
SchemeSymbol(name) == [name |-> name]

SymbolRef(i) == [ref |-> i]

\* The outcome of an intern call: the symbol returned, the table and the
\* objects after the call.
Interned(sym, table, objs) == [val |-> sym, table |-> table, objs |-> objs]

\* intern(name) for a name that is a symbol.
intern_symbol(sym, table, objs) ==
  LET str == objs[sym.ref].name
  IN IF table[str] # NoSymbol
     THEN Interned(SymbolRef(table[str]), table, objs)
     ELSE Interned(sym, [table EXCEPT ![str] = sym.ref], objs)

\* intern(name) for a string that makes a new symbol at every call.
intern_str_fresh(name, table, objs) ==
  LET sym == Len(objs) + 1
  IN Interned(SymbolRef(sym), [table EXCEPT ![name] = sym],
              Append(objs, SchemeSymbol(name)))

\* intern(name) for a name that is a string.
intern_str(name, table, objs) ==
  IF table[name] # NoSymbol
  THEN Interned(SymbolRef(table[name]), table, objs)
  ELSE LET sym == Len(objs) + 1
       IN Interned(SymbolRef(sym), [table EXCEPT ![name] = sym],
                   Append(objs, SchemeSymbol(name)))

\* isinstance(name, SchemeSymbol)
IsSymbolObject(name) == DOMAIN name = {"ref"}

intern_table(name, table, objs) ==
  IF IsSymbolObject(name)
  THEN intern_symbol(name, table, objs)
  ELSE intern_str(name.str, table, objs)

NameOf(name, objs) ==
  IF IsSymbolObject(name) THEN objs[name.ref].name ELSE name.str

InitIntern ==
  /\ frames = Frame(<<>>, NoEnv)
  /\ call = [op |-> "create"]
  /\ ret = Interned(SymbolRef(NoSymbol), NoSymbols, <<>>)
  /\ pre = [name \in Symbols |-> {}]
  /\ heap = <<>>
  /\ pc = Idle
  /\ proper_tail_recursion = FALSE
  /\ all_symbols = NoSymbols
  /\ lines = <<>>
  /\ printed = <<>>

\* SchemeSymbol(name), "for internal use": a symbol made without intern.
NewSymbol ==
  \E name \in Symbols :
    /\ Len(heap) < MaxSymbols
    /\ heap' = Append(heap, SchemeSymbol(name))
    /\ call' = [op |-> "SchemeSymbol", name |-> [str |-> name]]
    /\ ret' = Interned(SymbolRef(Len(heap) + 1), all_symbols, heap')
    /\ UNCHANGED <<frames, pre, pc, proper_tail_recursion, all_symbols,
                   lines, printed>>

\* intern(name), name a string or any symbol object.
Intern ==
  \E name \in {[str |-> n] : n \in Symbols}
                \cup {SymbolRef(i) : i \in DOMAIN heap} :
    /\ IsSymbolObject(name) \/ Len(heap) < MaxSymbols
    /\ call' = [op |-> "intern", name |-> name]
    /\ ret' = intern_table(name, all_symbols, heap)
    /\ all_symbols' = ret'.table
    /\ heap' = ret'.objs
    /\ pre' = [pre EXCEPT ![NameOf(name, heap)] = @ \cup {ret'.val.ref}]
    /\ UNCHANGED <<frames, pc, proper_tail_recursion, lines, printed>>

NextIntern == NewSymbol \/ Intern

SpecIntern == InitIntern /\ [][NextIntern]_vars

(***************************************************************************)
(* The reader (scheme_reader.py).  A Buffer is a sequence of tokens and    *)
(* the position of its current token.  A token is what the tokenizer       *)
(* yields: a Python int, a Python bool, or a string, which is a delimiter, *)
(* the word nil, an identifier or (with literal true) a string literal,   *)
(* text then being the characters between its quotes.                     *)
(***************************************************************************)
MaxTokens == 4

PyInt(n) == [pyint |-> n]

PyBool(b) == [pybool |-> b]

Word(s) == [text |-> s, literal |-> FALSE]

StrLit(s) == [text |-> s, literal |-> TRUE]

DELIMITERS == {Word("("), Word(")"), Word("'"), Word(".")}

\* src.current(): the current token, None when the tokens have run out.
current(src, i) == IF i <= Len(src) THEN src[i] ELSE None

\* The outcome of a read: the value read or the exception raised, and the
\* position of the buffer after it.
ReadOk(val, i) == [exc |-> "none", msg |-> "", val |-> val, pos |-> i]

ReadError(exc, msg, i) == [exc |-> exc, msg |-> msg, val |-> None, pos |-> i]

\* scheme_coerce(x) raises TypeError for a value that is no SchemeValue.
CoerceFails(x) == x = None

\* Pair(first, second) as the reader calls it, with the coercion of
\* Pair.__init__.
NewPair(first, second, i) ==
  IF CoerceFails(first) \/ CoerceFails(second)
  THEN ReadError("TypeError", "cannot convert type to SchemeValue", i)
  ELSE ReadOk(Pair(first, second), i)

RECURSIVE scheme_read(_, _), read_tail(_, _)

\* scheme_read(src) with the buffer at position i; the branch of the quote
\* token has no return statement, so it returns None after the pop.
scheme_read(src, i) ==
  IF current(src, i) = None
  THEN ReadError("EOFError", "", i)
  ELSE LET val == src[i]
       IN IF val = Word("nil") THEN ReadOk(nil, i + 1)
          ELSE IF "pyint" \in DOMAIN val THEN ReadOk(SchemeInt(val.pyint), i + 1)
          ELSE IF "pybool" \in DOMAIN val THEN ReadOk(scbool(val.pybool), i + 1)
          ELSE IF val \notin DELIMITERS
          THEN IF val.literal
               THEN ReadOk(SchemeStr(val.text), i + 1)
               ELSE ReadOk(intern(val.text), i + 1)
          ELSE IF val = Word("'") THEN ReadOk(None, i + 1)
          ELSE IF val = Word("(") THEN read_tail(src, i + 1)
          ELSE ReadError("SyntaxError", "unexpected token", i + 1)

\* read_tail(src) with the buffer at position i.
read_tail(src, i) ==
  IF current(src, i) = None
  THEN ReadError("SyntaxError", "unexpected end of file", i)
  ELSE IF current(src, i) = Word(")")
  THEN ReadOk(nil, i + 1)
  ELSE LET first == scheme_read(src, i)
       IN IF first.exc = "EOFError"
          THEN ReadError("SyntaxError", "unexpected end of file", first.pos)
          ELSE IF first.exc # "none" THEN first
          ELSE LET rest == read_tail(src, first.pos)
               IN IF rest.exc = "EOFError"
                  THEN ReadError("SyntaxError", "unexpected end of file",
                                 rest.pos)
                  ELSE IF rest.exc # "none" THEN rest
                  ELSE NewPair(first.val, rest.val, rest.pos)

\* The tokens a buffer may hold.
Tokens ==
  DELIMITERS \cup {PyInt(1), Word("x"), StrLit("a")}

\* The tokens of some data, of their quote shorthand and of the quote form,
\* alone and inside a list.
Data ==
  {<<PyInt(1)>>, <<Word("x")>>, <<Word("("), Word(")")>>,
   <<Word("("), PyInt(1), PyInt(2), Word(")")>>}

Shorthand(d) == <<Word("'")>> \o d

QuoteForm(d) == <<Word("("), Word("quote")>> \o d \o <<Word(")")>>

InList(head, e) == <<Word("("), Word(head)>> \o e \o <<Word(")")>>

QuoteLines ==
  UNION {{Shorthand(d), QuoteForm(d), InList("car", Shorthand(d)),
          InList("car", QuoteForm(d))} : d \in Data}

\* Lists with a dot token before their last elements.
DottedLines ==
  {<<Word("("), PyInt(1), Word("."), PyInt(2), Word(")")>>,
   <<Word("("), PyInt(1), PyInt(2), Word("."), PyInt(3), Word(")")>>,
   <<Word("("), PyInt(1), Word("."), PyInt(2), PyInt(3), Word(")")>>,
   <<Word("("), PyInt(1), Word("."), Word("("), PyInt(2), Word(")"),
     Word(")")>>,
   <<Word("("), PyInt(1), PyInt(2), Word(")")>>}

TokenLines == SeqsUpTo(Tokens, MaxTokens) \cup QuoteLines \cup DottedLines

\* A buffer of tokens is given to scheme_read or to read_tail.
InitRead ==
  /\ frames = Frame(<<>>, NoEnv)
  /\ call \in {[op |-> op, src |-> src] :
                 op \in {"scheme_read", "read_tail"}, src \in TokenLines}
  /\ ret = ReadError("pending", "", 1)
  /\ pre = <<>>
  /\ heap = <<>>
  /\ pc = Idle
  /\ proper_tail_recursion = FALSE
  /\ all_symbols = NoSymbols
  /\ lines = <<>>
  /\ printed = <<>>

\* scheme_read(Buffer(tokens))
Read ==
  /\ call.op = "scheme_read"
  /\ ret.exc = "pending"
  /\ ret' = scheme_read(call.src, 1)
  /\ UNCHANGED <<frames, call, pre, heap, pc, proper_tail_recursion,
                 all_symbols, lines, printed>>

\* read_tail(Buffer(tokens))
ReadTail ==
  /\ call.op = "read_tail"
  /\ ret.exc = "pending"
  /\ ret' = read_tail(call.src, 1)
  /\ UNCHANGED <<frames, call, pre, heap, pc, proper_tail_recursion,
                 all_symbols, lines, printed>>

NextRead == Read \/ ReadTail

SpecRead == InitRead /\ [][NextRead]_vars

(***************************************************************************)
(* Printing and reading back.  Text is a sequence of characters; printed   *)
(* holds the text print_repr returned, which the tokenizer turns into the  *)
(* tokens scheme_read is given.                                            *)
(***************************************************************************)
MaxElems == 2

\* The characters of the names and string contents of the model.
Chars(s) ==
  CASE s = "a" -> <<"a">>
    [] s = "b" -> <<"b">>
    [] s = "x" -> <<"x">>
    [] s = "a b" -> <<"a", " ", "b">>
    [] s = "a.b" -> <<"a", ".", "b">>

Names == {"a", "b", "x", "a b", "a.b"}

Digits == {ToString(n) : n \in 0..9}

\* str(v): SchemeInt, the booleans, nil, okay, SchemeSymbol.__str__, str.__str__
\* of a SchemeStr (its characters, without quotes) and Pair.__str__ with its
\* loop over the cdr.
RECURSIVE value_str(_), str_second(_)
value_str(v) ==
  IF scheme_pairp(v) THEN <<"(">> \o value_str(v.first) \o str_second(v.second)
  ELSE IF v = nil THEN <<"(", ")">>
  ELSE IF v = okay THEN <<"o", "k", "a", "y">>
  ELSE IF "int" \in DOMAIN v THEN <<ToString(v.int)>>
  ELSE IF "bool" \in DOMAIN v THEN <<"#", IF v.bool THEN "t" ELSE "f">>
  ELSE IF "sym" \in DOMAIN v THEN Chars(v.sym)
  ELSE Chars(v.str)

str_second(second) ==
  IF scheme_pairp(second)
  THEN <<" ">> \o value_str(second.first) \o str_second(second.second)
  ELSE IF second = nil THEN <<")">>
  ELSE <<" ", ".", " ">> \o value_str(second) \o <<")">>

\* SchemeStr._escape matches a double quote or a dot.
Escaped(text) == \E i \in DOMAIN text : text[i] \in {"\"", "."}

\* print_repr: SchemeStr.print_repr for a string (whose repr starts with a
\* single quote when it holds no single quote), str(v) for any other value.
\* The substitution function returns the match object, so a string with a
\* match raises TypeError.
print_repr(v) ==
  IF "str" \in DOMAIN v
  THEN IF "'" \in {Chars(v.str)[i] : i \in DOMAIN Chars(v.str)}
       THEN [exc |-> "none", text |-> <<"\"">> \o Chars(v.str) \o <<"\"">>]
       ELSE IF Escaped(Chars(v.str))
            THEN [exc |-> "TypeError", text |-> <<>>]
            ELSE [exc |-> "none",
                  text |-> <<"\"">> \o Chars(v.str) \o <<"\"">>]
  ELSE [exc |-> "none", text |-> value_str(v)]

\* The tokenizer: blanks separate tokens, a parenthesis or a quote is a
\* token, a double quote starts a string literal that runs to the next
\* double quote, and any other run of characters is a number, a boolean, the
\* dot or an identifier.
RECURSIVE RunEnd(_, _)
RunEnd(text, i) ==
  IF i > Len(text) \/ text[i] \in {" ", "(", ")", "'", "\""}
  THEN i
  ELSE RunEnd(text, i + 1)

RECURSIVE StrEnd(_, _)
StrEnd(text, i) ==
  IF i > Len(text) \/ text[i] = "\"" THEN i ELSE StrEnd(text, i + 1)

Named(cs) ==
  IF \E s \in Names : Chars(s) = cs
  THEN CHOOSE s \in Names : Chars(s) = cs
  ELSE "?"

Classify(run) ==
  IF run = <<".">> THEN Word(".")
  ELSE IF Len(run) = 1 /\ run[1] \in Digits
  THEN PyInt(CHOOSE n \in 0..9 : ToString(n) = run[1])
  ELSE IF run = <<"#", "t">> THEN PyBool(TRUE)
  ELSE IF run = <<"#", "f">> THEN PyBool(FALSE)
  ELSE Word(Named(run))

RECURSIVE tokenize(_, _)
tokenize(text, i) ==
  IF i > Len(text) THEN <<>>
  ELSE IF text[i] = " " THEN tokenize(text, i + 1)
  ELSE IF text[i] \in {"(", ")", "'"}
  THEN <<Word(text[i])>> \o tokenize(text, i + 1)
  ELSE IF text[i] = "\""
  THEN LET j == StrEnd(text, i + 1)
       IN <<StrLit(Named(SubSeq(text, i + 1, j - 1)))>>
            \o tokenize(text, j + 1)
  ELSE LET j == RunEnd(text, i)
       IN <<Classify(SubSeq(text, i, j - 1))>> \o tokenize(text, j)

\* The literals and the values made of them: the literals themselves and
\* the lists of literals and of lists of literals.
Literals ==
  {SchemeInt(1), SchemeInt(2), scheme_true, scheme_false, SchemeStr("a"),
   SchemeStr("a b"), SchemeStr("a.b"), intern("x"), nil}

PrintVals ==
  Literals
    \cup {List(s) : s \in SeqsUpTo(Literals \cup {List(<<SchemeInt(1)>>),
                                                  List(<<intern("x"), nil>>)},
                                   MaxElems)}

InitPrint ==
  /\ frames = Frame(<<>>, NoEnv)
  /\ call \in {[op |-> "print", val |-> v] : v \in PrintVals}
  /\ ret = ReadError("pending", "", 1)
  /\ pre = <<>>
  /\ heap = <<>>
  /\ pc = Idle
  /\ proper_tail_recursion = FALSE
  /\ all_symbols = NoSymbols
  /\ lines = <<>>
  /\ printed = <<>>

\* print(val.print_repr())
PrintRepr ==
  /\ ret.exc = "pending"
  /\ printed = <<>>
  /\ IF print_repr(call.val).exc = "none"
     THEN printed' = print_repr(call.val).text /\ UNCHANGED ret
     ELSE ret' = ReadError(print_repr(call.val).exc, "", 1)
            /\ UNCHANGED printed
  /\ UNCHANGED <<frames, call, pre, heap, pc, proper_tail_recursion,
                 all_symbols, lines>>

\* scheme_read of the tokens of the printed text.
ReadBack ==
  /\ ret.exc = "pending"
  /\ printed # <<>>
  /\ ret' = scheme_read(tokenize(printed, 1), 1)
  /\ UNCHANGED <<frames, call, pre, heap, pc, proper_tail_recursion,
                 all_symbols, lines, printed>>

NextPrint == PrintRepr \/ ReadBack

SpecPrint == InitPrint /\ [][NextPrint]_vars

(***************************************************************************)
(* The read-eval-print loop (scheme.py), not quiet, after startup.  lines  *)
(* is the input next_line() has not handed out yet, a line being its       *)
(* tokens; pc is the position of the loop: at next_line(), on a line (p0   *)
(* the line of the buffer, p1 the index of its current token), returned,   *)
(* or left by an exception; printed holds the lines printed; call and ret  *)
(* are the expression last read and the outcome of reading and evaluating  *)
(* it.  A buffer whose line is used up takes the next line of the input.   *)
(***************************************************************************)
MaxLines == 2

\* The depth of nested evaluations the host allows.
RecursionLimit == 3

RecursionMsg == "maximum recursion depth exceeded"

\* The deepest nesting of scheme_eval activations that evaluating expr
\* reaches: do_cond_form evaluates the test of each clause in turn, as long
\* as no test raises; the other forms evaluate their parts one level down.
RECURSIVE eval_depth(_, _, _)
eval_depth(expr, env, store) ==
  IF ~ (scheme_pairp(expr) /\ scheme_listp(expr)) THEN 1
  ELSE LET parts == [i \in 1..list_len(expr.second) |->
                        list_item(expr.second, i - 1)]
           reached(i) ==
             \A j \in 1..(i - 1) :
               /\ scheme_pairp(parts[j])
               /\ scheme_eval(parts[j].first, env, store, <<>>).exc = "none"
           depths ==
             IF expr.first = intern("cond")
             THEN {eval_depth(parts[i].first, env, store) :
                     i \in {k \in DOMAIN parts :
                              reached(k) /\ scheme_pairp(parts[k])}}
             ELSE {1}
       IN 1 + (CHOOSE d \in depths \cup {0} :
                 \A e \in depths \cup {0} : e <= d)

\* scheme_eval(expression, env) on a host whose recursion depth is limited.
repl_eval(expr, env, store) ==
  IF eval_depth(expr, env, store) > RecursionLimit
  THEN Raise("RuntimeError", RecursionMsg, store, <<>>)
  ELSE scheme_eval(expr, env, store, <<>>)

\* except SchemeError only.
Excepted_scheme_only(exc) == exc = "SchemeError"

\* except (SchemeError, SyntaxError, ValueError, RuntimeError)
Excepted(exc) ==
  exc \in {"SchemeError", "SyntaxError", "ValueError", "RuntimeError"}

\* The raise of the handler for every RuntimeError.
Reraised_all(exc, msg) == exc = "RuntimeError"

\* The raise of the handler: a RuntimeError that is no recursion-depth error.
Reraised(exc, msg) == exc = "RuntimeError" /\ msg # RecursionMsg

\* print("Error:", err)
Diagnostic(msg) == <<"Error:", msg>>

RECURSIVE Flat(_)
Flat(ls) == IF ls = <<>> THEN <<>> ELSE Head(ls) \o Flat(Tail(ls))

\* The buffer after the tokens before position q of cur and the lines after
\* it were used: its line, its index, and the input left.
RECURSIVE Advance(_, _, _)
Advance(cur, rest, q) ==
  IF q - 1 <= Len(cur) \/ rest = <<>>
  THEN [line |-> cur, index |-> q, rest |-> rest]
  ELSE Advance(Head(rest), Tail(rest), q - Len(cur))

\* A chain of n cond forms, each the test of the only clause of the next.
RECURSIVE Deep(_)
Deep(n) ==
  IF n = 0 THEN <<PyBool(TRUE)>>
  ELSE <<Word("("), Word("cond"), Word("(")>> \o Deep(n - 1)
         \o <<Word(")"), Word(")")>>

\* The lines typed: values, okay-valued forms, expressions that raise
\* SchemeError, SyntaxError, the recursion-depth error and TypeError, a list
\* ending on the next line, and two expressions on one line.
InputLines ==
  {<<PyBool(TRUE)>>, <<StrLit("a")>>, <<StrLit("a.b")>>, <<Word("x")>>,
   <<Word("("), Word("cond"), Word(")")>>,
   <<Word("("), Word("begin"), Word(")")>>,
   <<Word(")")>>,
   <<Word("("), PyInt(1), PyInt(2), Word(")")>>,
   <<Word("("), Word("define"), Word("x"), PyInt(1), Word(")")>>,
   <<Word("("), Word("cond")>>,
   <<Word("'"), Word("x")>>,
   <<Word("x"), PyBool(TRUE)>>,
   <<PyBool(FALSE), StrLit("a")>>,
   Deep(RecursionLimit - 1), Deep(RecursionLimit)}

GlobalFrames ==
  {<<[bindings |-> g, parent |-> NoEnv]>> :
     g \in BindingsOver(Symbols, SchemeInt(1))}

AtNextLine == [op |-> "next_line", p0 |-> <<>>, p1 |-> 1]

InitRepl ==
  /\ frames \in GlobalFrames
  /\ call = [op |-> "read_eval_print_loop", expr |-> None]
  /\ ret = Pending(frames)
  /\ pre = frames
  /\ heap = <<>>
  /\ pc = AtNextLine
  /\ proper_tail_recursion = FALSE
  /\ all_symbols = NoSymbols
  /\ lines \in SeqsUpTo(InputLines, MaxLines)
  /\ printed = <<>>

\* src = next_line(): EOFError at the end of the input, and the return.
NextLine ==
  /\ pc.op = "next_line"
  /\ IF lines = <<>>
     THEN pc' = [pc EXCEPT !.op = "returned"] /\ UNCHANGED lines
     ELSE pc' = [op |-> "on_line", p0 |-> Head(lines), p1 |-> 1]
            /\ lines' = Tail(lines)
  /\ UNCHANGED <<frames, call, ret, pre, heap, proper_tail_recursion,
                 all_symbols, printed>>

\* while src.more_on_line is false: back to the top of the while True loop.
EndOfLine ==
  /\ pc.op = "on_line"
  /\ pc.p1 > Len(pc.p0)
  /\ pc' = AtNextLine
  /\ UNCHANGED <<frames, call, ret, pre, heap, proper_tail_recursion,
                 all_symbols, lines, printed>>

\* What one round of the inner loop does with the outcome r of scheme_read
\* and of scheme_eval: print the result, print the diagnostic of an excepted
\* error and leave the line, or leave the loop with the exception.
Round(r, buffer) ==
  /\ ret' = r
  /\ frames' = r.store
  /\ IF r.exc = "none"
     THEN IF r.val = None
          THEN /\ printed' = printed
               /\ pc' = [op |-> "on_line", p0 |-> buffer.line,
                         p1 |-> buffer.index]
          ELSE IF print_repr(r.val).exc = "none"
          THEN /\ printed' = Append(printed, print_repr(r.val).text)
               /\ pc' = [op |-> "on_line", p0 |-> buffer.line,
                         p1 |-> buffer.index]
          ELSE /\ printed' = printed
               /\ pc' = [op |-> "raised", p0 |-> <<>>, p1 |-> 1]
     ELSE IF Excepted(r.exc) /\ ~ Reraised(r.exc, r.msg)
     THEN /\ printed' = Append(printed, Diagnostic(r.msg))
          /\ pc' = AtNextLine
     ELSE IF r.exc = "EOFError"
     THEN /\ printed' = printed
          /\ pc' = [op |-> "returned", p0 |-> <<>>, p1 |-> 1]
     ELSE /\ printed' = printed
          /\ pc' = [op |-> "raised", p0 |-> <<>>, p1 |-> 1]
  /\ lines' = buffer.rest

\* expression = scheme_read(src); result = scheme_eval(expression, env);
\* scheme_print(result), and the except clauses.
ReadEvalPrint ==
  /\ pc.op = "on_line"
  /\ pc.p1 <= Len(pc.p0)
  /\ LET expression == scheme_read(pc.p0 \o Flat(lines), pc.p1)
         buffer == Advance(pc.p0, lines, expression.pos)
     IN /\ pre' = frames
        /\ call' = [op |-> "read_eval_print_loop", expr |-> expression.val]
        /\ IF expression.exc # "none"
           THEN Round(Raise(expression.exc, expression.msg, frames, <<>>),
                      buffer)
           ELSE Round(repl_eval(expression.val, 1, frames), buffer)
  /\ UNCHANGED <<heap, proper_tail_recursion, all_symbols>>

NextRepl == NextLine \/ EndOfLine \/ ReadEvalPrint

\* The loop runs as long as it has a step to take.
SpecRepl == InitRepl /\ [][NextRepl]_vars /\ WF_vars(NextRepl)

(***************************************************************************)
(* Properties of the Frame operations and of atomic evaluation (Spec).     *)
(***************************************************************************)
\* The binding of symbol nearest to frame f on the path f, f.parent, ...,
\* root of store, and whether there is one.
Bound(store, f, symbol) == BindingFrame(store, f, symbol) # NoEnv

NearestValue(store, f, symbol) ==
  store[BindingFrame(store, f, symbol)].bindings[symbol]

ResolvesTo(r, store, f, symbol) ==
  IF Bound(store, f, symbol)
  THEN r.exc = "none" /\ r.val = NearestValue(store, f, symbol)
  ELSE r.exc = "SchemeError" /\ r.msg = "unknown identifier"

\* C1: lookup(s) started at frame f, and scheme_eval of the symbol s in f,
\* return the value bound to s in the nearest frame of f's parent chain that
\* binds s, and fail with the unbound-identifier error only when no frame of
\* the chain binds s.
C1_LookupNearestBinding ==
  /\ call.op = "lookup" => ResolvesTo(ret, pre, call.self, call.symbol)
  /\ (call.op = "scheme_eval" /\ scheme_symbolp(call.expr))
       => ResolvesTo(ret, pre, call.env, call.expr.sym)

\* C2: scheme_eval of an atom that is not a symbol returns the atom itself,
\* raises nothing and leaves every frame as it was.
C2_SelfEvaluation ==
  (call.op = "scheme_eval" /\ ~ scheme_pairp(call.expr)
     /\ ~ scheme_symbolp(call.expr))
    => /\ ret.exc = "none"
       /\ ret.val = call.expr
       /\ ret.store = pre
       /\ frames = pre

\* A string atom evaluated in a child frame, with bindings in both frames.
C2_Witness ==
  /\ call.op = "scheme_eval"
  /\ call.expr = SchemeStr("a")
  /\ call.env = 2
  /\ DOMAIN pre[1].bindings # {}
  /\ DOMAIN pre[2].bindings # {}
  /\ ret.val = SchemeStr("a")

\* C3: define(sym, val) binds sym to val in the receiving frame and changes
\* nothing else: no other frame, no other symbol of the receiving frame, no
\* parent link.
C3_DefineThisFrameOnly ==
  call.op = "define"
    => /\ Len(frames) = Len(pre)
       /\ call.sym \in DOMAIN frames[call.self].bindings
       /\ frames[call.self].bindings[call.sym] = call.val
       /\ frames[call.self].parent = pre[call.self].parent
       /\ \A g \in 1..Len(pre) : g # call.self => frames[g] = pre[g]
       /\ \A t \in Symbols \ {call.sym} :
            /\ t \in DOMAIN frames[call.self].bindings
                 <=> t \in DOMAIN pre[call.self].bindings
            /\ t \in DOMAIN pre[call.self].bindings
                 => frames[call.self].bindings[t] = pre[call.self].bindings[t]

\* define in a child frame of a symbol its parent binds to another value,
\* with another symbol bound in the child.
C3_Witness ==
  /\ call.op = "define"
  /\ call.self = 2
  /\ pre[2].parent = 1
  /\ call.sym \in DOMAIN pre[1].bindings
  /\ pre[1].bindings[call.sym] # call.val
  /\ DOMAIN pre[2].bindings \ {call.sym} # {}

\* The fixed prefix of a formals list, its tail (nil or the rest symbol), and
\* what is left of a list after its first k elements.
RECURSIVE FormalsPrefix(_)
FormalsPrefix(formals) ==
  IF scheme_pairp(formals)
  THEN <<formals.first>> \o FormalsPrefix(formals.second)
  ELSE <<>>

FormalsRest(formals) ==
  IF scheme_pairp(formals) THEN list_end(formals) ELSE formals

RECURSIVE Drop(_, _)
Drop(vals, k) == IF k = 0 THEN vals ELSE Drop(vals.second, k - 1)

ArityAgrees(formals, vals) ==
  IF FormalsRest(formals) = nil
  THEN list_len(vals) = Len(FormalsPrefix(formals))
  ELSE list_len(vals) >= Len(FormalsPrefix(formals))

\* The bindings the call frame of formals and vals holds.
CallBindings(formals, vals) ==
  LET fixed == FormalsPrefix(formals)
      rest == FormalsRest(formals)
      names == {fixed[i].sym : i \in DOMAIN fixed}
                 \cup (IF rest = nil THEN {} ELSE {rest.sym})
  IN [n \in names |->
        IF rest # nil /\ n = rest.sym THEN Drop(vals, Len(fixed))
        ELSE list_item(vals, (CHOOSE i \in DOMAIN fixed : fixed[i].sym = n) - 1)]

\* C4: make_call_frame(formals, vals) returns a new frame whose parent is the
\* receiver, with the i-th formal bound to the i-th value and the tail symbol
\* of a dotted formals list bound to the list of the remaining values; the
\* receiver's bindings are unchanged.
C4_CallFrameBindsFormals ==
  (call.op = "make_call_frame" /\ ArityAgrees(call.formals, call.vals))
    => /\ ret.exc = "none"
       /\ ret.val = FrameRef(Len(pre) + 1)
       /\ frames[Len(pre) + 1].parent = call.self
       /\ frames[Len(pre) + 1].bindings
            = CallBindings(call.formals, call.vals)
       /\ frames[call.self] = pre[call.self]

\* C5: make_call_frame(formals, vals) raises the evaluation error and makes
\* no frame when the number of values disagrees with the formals.
C5_CallFrameArityError ==
  (call.op = "make_call_frame" /\ ~ ArityAgrees(call.formals, call.vals))
    => /\ ret.exc = "SchemeError"
       /\ frames = pre

(***************************************************************************)
(* Properties of the evaluation of combinations (SpecEval).  The values    *)
(* the language gives the operands used here: a symbol has its nearest     *)
(* binding, (begin) is okay, (quote v) is v, any other atom is itself.     *)
(***************************************************************************)
Returned == ret.exc # "pending"

IsForm(expr, head, min, max) ==
  /\ scheme_pairp(expr)
  /\ expr.first = intern(head)
  /\ scheme_listp(expr)
  /\ list_len(expr) - 1 \in min..max

Defined(e, store, env) == scheme_symbolp(e) => Bound(store, env, e.sym)

ValueOf(e, store, env) ==
  IF scheme_symbolp(e) THEN NearestValue(store, env, e.sym)
  ELSE IF IsForm(e, "begin", 0, 0) THEN okay
  ELSE IF IsForm(e, "quote", 1, 1) THEN list_item(e, 1)
  ELSE e

\* ret is the outcome of evaluating operand e in env of store.
Yields(e, store, env) ==
  IF Defined(e, store, env)
  THEN ret.exc = "none" /\ ret.val = ValueOf(e, store, env)
  ELSE /\ ret.exc = "SchemeError"
       /\ ret.msg = "unknown identifier"
       /\ ret.val = e

\* C6: (let ((n1 e1) ... (nk ek)) body...) evaluates every ei in env, then
\* binds every ni to the value of ei in one new child frame of env and
\* evaluates the body there; an ei that names an ni not bound in env fails
\* with unbound identifier, and the frames of env are unchanged.
C6_LetScoping ==
  (call.op = "scheme_eval" /\ Returned /\ call.expr \in LetForms
     /\ list_len(call.expr) >= 3)
    => LET bindings == list_item(call.expr, 1)
           k == list_len(bindings)
           names == [i \in 1..k |-> list_item(list_item(bindings, i - 1), 0).sym]
           inits == [i \in 1..k |-> list_item(list_item(bindings, i - 1), 1)]
           body == Drop(call.expr, 2)
           last == list_item(body, list_len(body) - 1)
           n == Len(pre) + 1
           unbound == {i \in 1..k : ~ Defined(inits[i], pre, call.env)}
           unboundBody(store) ==
             {j \in 0..(list_len(body) - 1) :
                ~ Defined(list_item(body, j), store, n)}
       IN /\ SubSeq(ret.store, 1, Len(pre)) = pre
          /\ \A i \in 1..k :
               (\A j \in 1..(i - 1) : j \notin unbound)
                 => \E m \in DOMAIN ret.log : ret.log[m] = <<inits[i], call.env>>
          /\ IF unbound # {}
             THEN Yields(inits[CHOOSE i \in unbound : \A j \in unbound : i <= j],
                         pre, call.env)
             ELSE /\ Len(ret.store) = n
                  /\ ret.store[n].parent = call.env
                  /\ DOMAIN ret.store[n].bindings = {names[i] : i \in 1..k}
                  /\ \A i \in 1..k :
                       ret.store[n].bindings[names[i]]
                         = ValueOf(inits[i], pre, call.env)
                  /\ IF unboundBody(ret.store) = {}
                     THEN Yields(last, ret.store, n)
                     ELSE Yields(list_item(body,
                                   CHOOSE j \in unboundBody(ret.store) :
                                     \A h \in unboundBody(ret.store) : j <= h),
                                 ret.store, n)

\* C7: a lambda and a mu with the same formals and body, whose body is the
\* free variable x, applied from an environment that binds x differently
\* from the definition environment: the lambda yields the x of its
\* definition environment, the mu the x of the caller's environment, each
\* in a call frame that is a child of that environment.
C7_LambdaMuScoping ==
  (call.op = "scheme_apply" /\ Returned /\ call.args = nil /\ call.env = 2
     /\ call.procedure \in {LambdaProcedure("lambda", nil, intern("x"), 1),
                            LambdaProcedure("mu", nil, intern("x"), 1)}
     /\ Bound(pre, 1, "x") /\ "x" \in DOMAIN pre[2].bindings)
    => LET scope == IF call.procedure.proc = "mu" THEN call.env
                    ELSE call.procedure.env
       IN /\ ret.exc = "none"
          /\ ret.val = NearestValue(pre, scope, "x")
          /\ Len(ret.store) = Len(pre) + 1
          /\ ret.store[Len(pre) + 1].parent = scope

\* C8: (define name expr) binds name in env to the value of expr and returns
\* the symbol name; (define (name . formals) body...) binds name to the
\* lambda procedure of formals and body that captures env and returns the
\* symbol name; a target that is neither a symbol nor a pair raises the
\* evaluation error and binds nothing.
C8_Define ==
  (call.op = "scheme_eval" /\ Returned /\ IsForm(call.expr, "define", 2, 2))
    => LET target == list_item(call.expr, 1)
           e == list_item(call.expr, 2)
       IN IF scheme_symbolp(target)
          THEN Defined(e, pre, call.env)
                 => /\ ret.exc = "none"
                    /\ ret.val = target
                    /\ ret.store = define(pre, call.env, target.sym,
                                          ValueOf(e, pre, call.env))
          ELSE IF scheme_pairp(target)
          THEN /\ ret.exc = "none"
               /\ ret.val = target.first
               /\ Len(ret.store) = Len(pre)
               /\ \A g \in 1..Len(pre) : g # call.env => ret.store[g] = pre[g]
               /\ target.first.sym \in DOMAIN ret.store[call.env].bindings
               /\ LET p == ret.store[call.env].bindings[target.first.sym]
                  IN /\ "proc" \in DOMAIN p
                     /\ p.proc = "lambda"
                     /\ p.formals = target.second
                     /\ p.env = call.env
          ELSE ret.exc = "SchemeError" /\ ret.store = pre

\* C9: (quote v) returns v itself in any environment, without evaluating it
\* and without an unbound-identifier error.
C9_Quote ==
  (call.op = "scheme_eval" /\ Returned /\ IsForm(call.expr, "quote", 1, 1))
    => /\ ret.exc = "none"
       /\ ret.val = list_item(call.expr, 1)
       /\ ret.log = <<<<call.expr, call.env>>>>
       /\ ret.store = pre

\* C10: (if test conseq [alt]) evaluates test once, then the consequent when
\* the test value is truthy, otherwise the alternative when there is one;
\* with a falsy test and no alternative the result is okay.  The other
\* branch is not evaluated.
C10_If ==
  (call.op = "scheme_eval" /\ Returned /\ IsForm(call.expr, "if", 2, 3))
    => LET test == list_item(call.expr, 1)
           conseq == list_item(call.expr, 2)
           hasAlt == list_len(call.expr) = 4
           entered == <<<<call.expr, call.env>>, <<test, call.env>>>>
       IN IF ~ Defined(test, pre, call.env)
          THEN Yields(test, pre, call.env) /\ ret.log = entered
          ELSE IF Truthy(ValueOf(test, pre, call.env))
          THEN /\ Yields(conseq, pre, call.env)
               /\ ret.log = Append(entered, <<conseq, call.env>>)
          ELSE IF hasAlt
          THEN /\ Yields(list_item(call.expr, 3), pre, call.env)
               /\ ret.log = Append(entered, <<list_item(call.expr, 3), call.env>>)
          ELSE ret.exc = "none" /\ ret.val = okay /\ ret.log = entered

\* The elements of a Scheme list, as a sequence.
ListSeq(x) == [i \in 1..list_len(x) |-> list_item(x, i - 1)]

\* The activations of the expressions of a sequence, all in env.
InEnv(exprs, env) == [i \in DOMAIN exprs |-> <<exprs[i], env>>]

\* A cond whose clauses are lists (test body...) with at least one body
\* expression, tests and bodies being atoms that are not symbols, and an
\* else clause only in the last place.
IsPlainCond(expr) ==
  /\ IsForm(expr, "cond", 1, MaxOperands)
  /\ \A i \in 1..(list_len(expr) - 1) :
       LET clause == list_item(expr, i) IN
         /\ scheme_pairp(clause) /\ scheme_listp(clause)
         /\ list_len(clause) >= 2
         /\ \A j \in 0..(list_len(clause) - 1) :
              LET e == list_item(clause, j) IN
                /\ scheme_atomp(e)
                /\ scheme_symbolp(e) => (j = 0 /\ e = intern("else")
                                          /\ i = list_len(expr) - 1)

ClauseHolds(clause) == clause.first = intern("else") \/ Truthy(clause.first)

\* The tests evaluated up to and including clause k (else is not evaluated).
TestsUpTo(expr, k) ==
  SelectSeq([i \in 1..k |-> list_item(expr, i).first],
            LAMBDA t : t # intern("else"))

\* C11: a cond evaluates the clause tests in order up to the first truthy
\* one (else counts as truthy), then the body of that clause as an implicit
\* begin, whose last value is the result; no later test is evaluated; the
\* result is okay only when no test is truthy.
C11_Cond ==
  (call.op = "scheme_eval" /\ Returned /\ IsPlainCond(call.expr))
    => LET n == list_len(call.expr) - 1
           hold == {i \in 1..n : ClauseHolds(list_item(call.expr, i))}
           k == CHOOSE i \in hold : \A j \in hold : i <= j
           entered(m) ==
             <<<<call.expr, call.env>>>>
               \o InEnv(TestsUpTo(call.expr, m), call.env)
       IN /\ ret.exc = "none"
          /\ IF hold = {}
             THEN ret.val = okay /\ ret.log = entered(n)
             ELSE LET body == ListSeq(list_item(call.expr, k).second) IN
                    /\ ret.val = body[Len(body)]
                    /\ ret.log = entered(k) \o InEnv(body, call.env)

\* C12: (begin e1 ... en), n >= 1, evaluates e1 ... en once each, in that
\* order, in env, and returns the value of en; (begin) returns okay.  (The
\* operands here are atoms that are not symbols, or the form (begin).)
C12_Begin ==
  (call.op = "scheme_eval" /\ Returned
     /\ IsForm(call.expr, "begin", 0, MaxOperands)
     /\ \A i \in 1..(list_len(call.expr) - 1) :
          ~ scheme_symbolp(list_item(call.expr, i)))
    => LET operands == ListSeq(call.expr.second) IN
         /\ ret.exc = "none"
         /\ ret.store = pre
         /\ ret.log = <<<<call.expr, call.env>>>> \o InEnv(operands, call.env)
         /\ ret.val = IF operands = <<>> THEN okay
                      ELSE ValueOf(operands[Len(operands)], pre, call.env)

\* A list of distinct symbols.
DistinctSymbols(formals) ==
  /\ scheme_listp(formals)
  /\ \A i \in 1..list_len(formals) :
       /\ scheme_symbolp(list_item(formals, i - 1))
       /\ \A j \in 1..list_len(formals) :
            i # j => list_item(formals, i - 1) # list_item(formals, j - 1)

\* C13: a lambda, mu or nu form whose formals are not a list of distinct
\* symbols raises SchemeError and creates no procedure; with valid formals
\* it returns a procedure of the matching variant that captures env.
C13_CheckFormals ==
  \A k \in {"lambda", "mu", "nu"} :
    (call.op = "scheme_eval" /\ Returned /\ IsForm(call.expr, k, 2, 2)
       /\ scheme_listp(list_item(call.expr, 1)))
      => IF DistinctSymbols(list_item(call.expr, 1))
         THEN /\ ret.exc = "none"
              /\ IsProcedure(ret.val)
              /\ "proc" \in DOMAIN ret.val
              /\ ret.val.proc = k
              /\ ret.val.formals = list_item(call.expr, 1)
              /\ ret.val.env = call.env
              /\ ret.store = pre
         ELSE /\ ret.exc = "SchemeError"
              /\ ret.val = None
              /\ ret.store = pre

\* The sum of a Scheme list of integers (the native function of "add").
RECURSIVE SumOf(_)
SumOf(args) ==
  IF scheme_pairp(args) THEN args.first.int + SumOf(args.second) ELSE 0

\* C14: a special-form handler or an apply method that does not raise
\* SchemeError returns a pair, (value, None) or (expression, environment),
\* so that scheme_eval and scheme_apply never fail to destructure it; the
\* apply of a primitive returns the native function's value.
C14_ResultShape ==
  Returned
    => /\ ~ (ret.exc = "TypeError" /\ ret.msg = UnpackNone)
       /\ (call.op = "scheme_apply"
             /\ call.procedure = PrimitiveProcedure("add"))
            => /\ ret.exc = "none"
               /\ ret.val = SchemeInt(SumOf(call.args))

\* How many times an activation occurs in a log.
Occurrences(log, entry) == Cardinality({i \in DOMAIN log : log[i] = entry})

\* C15: in a call (p e) of a nu procedure p of one formal, e is evaluated
\* in the caller's environment once when the body dereferences the formal,
\* and never when the body does not; it is not evaluated at call time.
C15_NuCallByName ==
  (call.op = "scheme_eval" /\ Returned /\ call.expr \in NuCalls)
    => LET p == call.expr.first
           e == list_item(call.expr, 1)
           evaluated == Occurrences(ret.log, <<e, call.env>>)
       IN IF p.body = list_item(p.formals, 0)
          THEN evaluated = 1 /\ Yields(e, pre, call.env)
          ELSE evaluated = 0 /\ ret.exc = "none" /\ ret.val = p.body

\* C16: with proper_tail_recursion = True, a call of a lambda that calls
\* itself only in tail position, n times, terminates with the result (here
\* 0, for every n).  The operator of the call is the procedure itself, so
\* that no lookup of the operator is involved.
C16_TailCallTerminates ==
  []((proper_tail_recursion /\ call.op = "scheme_eval"
        /\ call.expr \in LoopCalls /\ call.expr.first = LoopProc)
       => <>(ret.exc = "none" /\ ret.val = SchemeInt(0)))

(***************************************************************************)
(* Properties of the traversals of pair structures (SpecPair).             *)
(***************************************************************************)
\* The value k cdr-steps from v, or the first value that is no pair.
RECURSIVE ChainEnd(_, _, _)
ChainEnd(h, v, k) ==
  IF ~ pairp(v) \/ k = 0 THEN v ELSE ChainEnd(h, h[v.ref].second, k - 1)

\* The cdr-chain of pair p ends in nil (a chain that is still at a pair
\* after Len(h) steps is circular).
ProperList(h, p) == ChainEnd(h, PairRef(p), Len(h)) = nil

\* C17: on every pair structure built by cons, set-car! and set-cdr!, list?
\* and length terminate; when the cdr-chain does not end in nil, list?
\* returns false and length raises SchemeError.
C17_ListpLengthTerminate ==
  []((call.op \in {"list?", "length"} /\ ret.exc = "pending")
       => <>(/\ call.op \in {"list?", "length"}
             /\ ret.exc # "pending"
             /\ ~ ProperList(heap, call.self)
                  => IF call.op = "list?" THEN ret.val = scheme_false
                     ELSE ret.exc = "SchemeError"))

\* C18: on every pair structure built by cons, set-car! and set-cdr!,
\* producing the printed form of a pair terminates.
C18_StrTerminates ==
  []((call.op = "str" /\ ret.exc = "pending") => <>(ret.exc # "pending"))

(***************************************************************************)
(* Properties of the division primitives (SpecArith).                      *)
(***************************************************************************)
SameSignOrZero(r, n) == r = 0 \/ (r > 0) = (n > 0)

\* a / b truncated toward zero: the q whose remainder a - q * b is smaller
\* than b in magnitude and is zero or has the sign of a.
Truncated(a, b) ==
  CHOOSE q \in Ints :
    abs(a - q * b) < abs(b) /\ SameSignOrZero(a - q * b, a)

IntCall(op) ==
  /\ call.op = op
  /\ scheme_integerp(call.vals[1])
  /\ scheme_integerp(call.vals[2])
  /\ call.vals[2] # SchemeInt(0)

\* C19: for integers a and b # 0, (quotient a b) is a / b truncated toward
\* zero, (modulo a b) is the floor remainder, zero or with the sign of b,
\* and (remainder a b) is a - b * (quotient a b), zero or with the sign of
\* a; (quotient -7 2) = -3, (modulo -7 2) = 1, (remainder -7 2) = -1.
C19_QuotientModuloRemainder ==
  LET a == call.vals[1].int
      b == call.vals[2].int
      v == ret.val.int
  IN /\ IntCall("quotient")
          => /\ ret.exc = "none" /\ v = Truncated(a, b)
             /\ (a = -7 /\ b = 2) => v = -3
     /\ IntCall("modulo")
          => /\ ret.exc = "none"
             /\ abs(v) < abs(b) /\ SameSignOrZero(v, b)
             /\ \E k \in (-2 * MaxInt)..(2 * MaxInt) : a - v = k * b
             /\ (a = -7 /\ b = 2) => v = 1
     /\ IntCall("remainder")
          => /\ ret.exc = "none"
             /\ v = a - b * Truncated(a, b) /\ SameSignOrZero(v, a)
             /\ (a = -7 /\ b = 2) => v = -1

\* (remainder -7 2) has returned -1.
C19_Witness ==
  /\ call.op = "remainder"
  /\ call.vals = <<SchemeInt(-7), SchemeInt(2)>>
  /\ ret.val = SchemeInt(-1)

\* C20: /, quotient, modulo and remainder with a zero divisor, (/ 0)
\* included, raise SchemeError whatever the dividend (negative, zero,
\* positive, integer or float), and no call of them ends in an exception
\* of the host.
C20_DivisionByZero ==
  call.op \in {"/", "quotient", "modulo", "remainder"}
    => /\ ret.exc \in {"none", "SchemeError"}
       /\ (Len(call.vals) >= 1 /\ call.vals[Len(call.vals)] = SchemeInt(0))
            => ret.exc = "SchemeError"

\* (/ 0) has raised SchemeError.
C20_Witness ==
  /\ call.op = "/"
  /\ call.vals = <<SchemeInt(0)>>
  /\ ret.exc = "SchemeError"

\* An integer value: a SchemeInt, of any size.
IsSchemeInt(x) == scheme_integerp(x) \/ "pow" \in DOMAIN x

\* b divides a, for an integer a of any size and a small b # 0.
Divides(b, a) ==
  IF scheme_integerp(a) THEN mod(a.int, b.int).val = 0
  ELSE mod(a.plus, b.int).val = 0

IntegerOperands(op, n) ==
  /\ call.op = op
  /\ Len(call.vals) = n
  /\ \A i \in 1..n : IsSchemeInt(call.vals[i])

\* C21: for integer operands +, - and * return an integer (the exact sum,
\* difference and product), and (/ a b), b # 0, returns an integer exactly
\* when b divides a and a float otherwise.
C21_ArithmeticExactness ==
  LET a == call.vals[1]
      b == call.vals[2]
  IN /\ IntegerOperands("+", 2) => ret = Ok(SchemeInt(a.int + b.int), frames, <<>>)
     /\ IntegerOperands("-", 2) => ret = Ok(SchemeInt(a.int - b.int), frames, <<>>)
     /\ IntegerOperands("*", 2) => ret = Ok(SchemeInt(a.int * b.int), frames, <<>>)
     /\ (IntegerOperands("/", 2) /\ b # SchemeInt(0))
          => /\ ret.exc = "none"
             /\ IsSchemeInt(ret.val) <=> Divides(b, a)

(***************************************************************************)
(* The order of evaluation in an application (SpecEval).                   *)
(***************************************************************************)
IsApplication(expr) ==
  /\ expr \in Forms
  /\ ~ (scheme_symbolp(expr.first) /\ expr.first.sym \in SPECIAL_FORMS)

\* The activations of scheme_eval for the application expr in env up to its
\* k-th operand: the application, its head, then the operands in order.
Order(expr, env, k) ==
  <<<<expr, env>>, <<expr.first, env>>>>
    \o [i \in 1..k |-> <<ListSeq(expr.second)[i], env>>]

Canonical(name) == all_symbols[NameOf(name, heap)]

\* C22: after any sequence of intern calls with string or symbol arguments,
\* every name of the table maps to one symbol object of that name, an entry
\* never changes once made, and all intern calls on arguments of the same
\* name have returned the identical symbol object.
C22_InternTable ==
  /\ [](/\ \A name \in Symbols :
             /\ all_symbols[name] # NoSymbol
                  => /\ all_symbols[name] \in DOMAIN heap
                     /\ heap[all_symbols[name]].name = name
             /\ Cardinality(pre[name]) <= 1
             /\ pre[name] # {} => pre[name] = {all_symbols[name]}
        /\ call.op = "intern" => ret.val = SymbolRef(Canonical(call.name)))
  /\ [][\A name \in Symbols :
          all_symbols[name] # NoSymbol
            => all_symbols'[name] = all_symbols[name]]_vars

\* Two symbol objects of one name exist, the name was interned by string and
\* by both symbols, and a later intern call has returned.
C22_Witness ==
  \E i, j \in DOMAIN heap :
    /\ i # j
    /\ heap[i].name = heap[j].name
    /\ all_symbols[heap[i].name] = i
    /\ call = [op |-> "intern", name |-> SymbolRef(j)]
    /\ ret.val = SymbolRef(i)

(***************************************************************************)
(* Properties of the reader (SpecRead).                                    *)
(***************************************************************************)
\* The tokens src with the quote shorthand at position i written out as the
\* quote form of the datum d that follows it.
IsShorthandAt(src, i, d) ==
  /\ i + Len(d) <= Len(src)
  /\ src[i] = Word("'")
  /\ SubSeq(src, i + 1, i + Len(d)) = d

WrittenOut(src, i, d) ==
  SubSeq(src, 1, i - 1) \o QuoteForm(d) \o SubSeq(src, i + Len(d) + 1, Len(src))

\* C23: reading the quote shorthand of a datum d returns what reading the
\* form (quote d) returns, also when the shorthand is nested in a list.
C23_QuoteShorthand ==
  (call.op = "scheme_read" /\ call.src \in QuoteLines /\ ret.exc # "pending")
    => \A d \in Data : \A i \in DOMAIN call.src :
         IsShorthandAt(call.src, i, d)
           => /\ ret.exc = "none"
              /\ ret.val = scheme_read(WrittenOut(call.src, i, d), 1).val

\* C24: in a list, a dot token followed by one element and the closing
\* parenthesis reads as a dotted pair whose last cdr is that element; a dot
\* followed by more than one element raises a syntax error.
C24_DottedPair ==
  LET one == PyInt(1)  two == PyInt(2)  three == PyInt(3)
      open == Word("(")  close == Word(")")  dot == Word(".")
  IN (call.op = "scheme_read" /\ ret.exc # "pending")
       => /\ call.src = <<open, one, dot, two, close>>
               => /\ ret.exc = "none"
                  /\ ret.val = Pair(SchemeInt(1), SchemeInt(2))
          /\ call.src = <<open, one, two, dot, three, close>>
               => /\ ret.exc = "none"
                  /\ ret.val = Pair(SchemeInt(1),
                                    Pair(SchemeInt(2), SchemeInt(3)))
          /\ call.src = <<open, one, dot, open, two, close, close>>
               => /\ ret.exc = "none"
                  /\ ret.val = Pair(SchemeInt(1), List(<<SchemeInt(2)>>))
          /\ call.src = <<open, one, dot, two, three, close>>
               => ret.exc = "SyntaxError"

\* The number of lists open after the first k tokens of src, n of them being
\* open before the first.
RECURSIVE Depth(_, _, _)
Depth(src, k, n) ==
  IF k = 0 THEN n
  ELSE Depth(src, k - 1, n)
         + (IF src[k] = Word("(") THEN 1
            ELSE IF src[k] = Word(")") THEN -1 ELSE 0)

\* The tokens run out inside a list: with n lists open before the first
\* token, some list is open after every token.
RunsOut(src, n) == \A k \in 0..Len(src) : Depth(src, k, n) >= 1

\* C25: scheme_read raises a syntax error when the next token is a stray
\* closing parenthesis and when the tokens run out after a list was opened
\* and before it is closed, at every nesting depth; read_tail, which starts
\* inside a list, does so as well.
C25_SyntaxErrors ==
  ret.exc # "pending"
    => /\ (call.op = "scheme_read" /\ current(call.src, 1) = Word(")"))
            => ret.exc = "SyntaxError"
       /\ (call.op = "scheme_read" /\ call.src # <<>>
             /\ RunsOut(Tail(call.src), 1) /\ call.src[1] = Word("("))
            => ret.exc = "SyntaxError"
       /\ (call.op = "read_tail" /\ RunsOut(call.src, 1))
            => ret.exc = "SyntaxError"

(***************************************************************************)
(* Properties of printing and reading back (SpecPrint).                    *)
(***************************************************************************)
\* C26: for a finite list v of literals and of lists of literals, reading
\* the printed form of v returns a value equal to v.
C26_RoundTrip ==
  (call.op = "print" /\ scheme_listp(call.val) /\ ret.exc # "pending")
    => /\ ret.exc = "none"
       /\ ret.val = call.val

(***************************************************************************)
(* Properties of the read-eval-print loop (SpecRepl).                      *)
(***************************************************************************)
\* The loop is about to read and evaluate the next expression of its line.
AtExpression == pc.op = "on_line" /\ pc.p1 <= Len(pc.p0)

\* The errors of reading and of evaluation: SyntaxError and SchemeError.
ListedErrors == {"SchemeError", "SyntaxError"}

\* The last line printed.
LastPrinted == printed[Len(printed)]

\* C27: when reading or evaluating an expression fails with a syntax error
\* or an evaluation error, a diagnostic is printed and the loop goes on to
\* the next input line with the frame and its bindings as they were; every
\* line of the input is handed to the reader in turn, and the loop returns
\* when, and only when, the input has ended.
C27_ErrorRecovery ==
  /\ [][(AtExpression /\ ret'.exc \in ListedErrors)
          => /\ Len(printed') = Len(printed) + 1
             /\ printed'[Len(printed')] = <<"Error:", ret'.msg>>
             /\ pc'.op = "next_line"
             /\ frames' = frames]_vars
  /\ [][pc.op = "next_line"
          => /\ frames' = frames
             /\ IF lines = <<>>
                THEN pc'.op = "returned"
                ELSE /\ pc'.op = "on_line"
                     /\ pc'.p0 = Head(lines)
                     /\ pc'.p1 = 1
                     /\ lines' = Tail(lines)]_vars
  /\ [](pc.op = "returned" => lines = <<>>)
  /\ [](pc.op = "raised" => ret.exc \notin ListedErrors)

\* An unknown identifier was reported, the next line was evaluated and its
\* value printed, the global frame has its bindings, and the loop returned.
C27_Witness ==
  /\ pc.op = "returned"
  /\ printed = <<<<"Error:", "unknown identifier">>, <<"#", "t">>>>
  /\ frames[1].bindings # EmptyBindings

\* C28: the loop prints the value of an evaluated expression exactly when
\* the value is not okay; an expression whose value is okay, such as
\* (begin), prints nothing.
C28_PrintsUnlessOkay ==
  [][(AtExpression /\ ret'.exc = "none")
       => IF ret'.val = okay
          THEN printed' = printed
          ELSE Len(printed') = Len(printed) + 1]_vars

====
